---- MODULE Spec2Model ----
(***************************************************************************)
(* Client-side session and view-state coordinator of the MediaCloud        *)
(* frontend: AuthService (token-backed session, expiry check, single-fire  *)
(* logout), AuthGuard, ErrorInterceptor and HomeComponent (per-item        *)
(* operation guard, list loading), with the HTTP requests in flight and    *)
(* the router's navigation promises between them.                          *)
(*                                                                         *)
(* JavaScript runs every handler to completion on one thread, so each      *)
(* action below is one whole handler (an event callback, an HTTP           *)
(* continuation with the interceptor in front of it, or a promise          *)
(* continuation).  Asynchrony lives between the actions.                   *)
(***************************************************************************)
EXTENDS Integers, Sequences, FiniteSets, TLC

(***************************************************************************)
(* Bounds of the model.                                                    *)
(***************************************************************************)
MaxNow == 2        \* the clock (whole seconds) runs over 1..MaxNow
MaxExp == 2        \* exp claims of well-formed tokens run over 0..MaxExp
MaxParts == 4      \* a token string splits on '.' into 1..MaxParts segments
MaxClaim == 4      \* the expiry check alone: exp claims 0..MaxClaim,
MaxClock == 4      \*   clock values 1..MaxClock
MaxReq == 2        \* HTTP requests in flight at the same time
MaxCalls == 2      \* logout() invocations counted within one logout sequence
MaxRuns == 2       \* logout sequences counted per established session
MaxQuery == 3      \* characters typed into the search box
GiB == 4            \* units in one gibibyte (1024 * 1024 * 1024 bytes)
MaxGiB == 101       \* the largest quota, in gibibytes
MaxBytes == 10     \* usedBytes and quotaBytes of a storage summary run over 0..MaxBytes

Users == {"u1", "u2"}
ItemIds == {1, 2}

Null == "null"     \* JavaScript null / undefined / a missing storage entry

VARIABLES
  \* ---- AuthService, localStorage, Router, clock
  localStorage,        \* [token, user]: the two entries of the durable store
  currentUserSubject,  \* value of the BehaviorSubject<User | null>
  isLoggingOut,        \* AuthService.isLoggingOut
  now,                 \* Math.floor(Date.now() / 1000)
  logoutNav,           \* promise of the router.navigate(['/login']) of logout()
  redirectNav,         \* a router.navigate(['/login']) of interceptor or guard pending
  route,               \* the activated route: "login" or "home"
  \* ---- HTTP
  requests,            \* the requests in flight
  \* ---- HomeComponent (the instance last created)
  currentUser,         \* HomeComponent.currentUser (subscriber of currentUser$)
  activeTab, searchQuery, mediaItems, filteredItems, isLoading,
  operatingItems, storageSummary, storageLoading,
  uploadingFiles,      \* HomeComponent.uploadingFiles
  uploadProgress,      \* HomeComponent.uploadProgress
  uploadError,         \* HomeComponent.uploadError
  \* ---- RegisterComponent
  registerData,        \* [firstName, lastName, email, password]
  confirmPassword, registerLoading, errorMessage,
  homeNav,             \* a router.navigate(['/home']) requested and not yet run
  nowPlaying,          \* HomeComponent.nowPlaying: the item [id, type]
  storagePercentage,   \* what getStoragePercentage() last returned; den = 0 before
  planDisplayName,     \* what getPlanDisplayName() last returned; "unset" before
  \* ---- backend
  serverItems,         \* id -> [exists, isFavorite, isDeleted]
  \* ---- token-expiry check taken alone
  expiryInput,         \* [token, now] handed to isTokenExpired
  expiryResult,        \* "expired" or "valid", "unset" before the call
  \* ---- history (not program state)
  window,              \* effects counted since the running logout sequence began
  logoutTrace,         \* the steps of the last logout sequence, in order
  runs401              \* logout sequences started while handling a 401, per session

authVars == <<localStorage, currentUserSubject, isLoggingOut, logoutNav,
              redirectNav, currentUser, window, logoutTrace>>
homeVars == <<activeTab, searchQuery, mediaItems, filteredItems, isLoading,
              operatingItems, storageSummary, storageLoading>>
expiryVars == <<expiryInput, expiryResult>>
uploadVars == <<uploadingFiles, uploadProgress, uploadError>>
registerVars == <<registerData, confirmPassword, registerLoading, errorMessage>>
playerVars == <<nowPlaying, storagePercentage, planDisplayName>>
formVars == <<uploadVars, registerVars, homeNav, playerVars>>
vars == <<authVars, homeVars, expiryVars, formVars, now, route, requests, serverItems,
          runs401>>

(***************************************************************************)
(* Tokens.  A token string is modelled by what isTokenExpired reads of     *)
(* it: the number of '.'-separated segments, whether the second segment    *)
(* survives atob + JSON.parse, whether the payload carries exp, and exp.   *)
(***************************************************************************)
Token(parts, decodable, hasExp, exp) ==
  [parts |-> parts, decodable |-> decodable, hasExp |-> hasExp, exp |-> exp]

Jwt(exp) == Token(3, TRUE, TRUE, exp)

\* 'mock.jwt.token' of the integration tests: three segments, atob('jwt')
\* is not JSON.
MockJwtToken == Token(3, FALSE, FALSE, 0)

AllTokens ==
  { Token(p, d, h, e) : p \in 1..MaxParts, d \in BOOLEAN, h \in BOOLEAN,
                        e \in 0..MaxClaim }

\* AuthService.isTokenExpired(token) at time t
ExpIsFalsy(token) == ~token.hasExp \/ token.exp = 0

isTokenExpiredOffByOne(token, t) ==
  IF token.parts # 3 THEN TRUE
  ELSE IF ~token.decodable THEN TRUE
  ELSE IF ExpIsFalsy(token) THEN TRUE
  ELSE token.exp <= t

isTokenExpired(token, t) ==
  IF token.parts # 3 THEN TRUE                 \* parts.length !== 3
  ELSE IF ~token.decodable THEN TRUE           \* atob / JSON.parse throws: catch
  ELSE IF ExpIsFalsy(token) THEN TRUE          \* !payload.exp
  ELSE token.exp < t                           \* payload.exp < currentTime

(***************************************************************************)
(* The durable store.  A missing token entry (getItem gives null) and the  *)
(* empty string are both falsy for isAuthenticated: NoToken.  The user     *)
(* entry is a string: JSON.stringify(user) parses back to the user, a      *)
(* string written by anything else may not parse.                          *)
(***************************************************************************)
NoToken == Token(0, FALSE, FALSE, 0)

NoEntry == [kind |-> "absent", value |-> Null]
Corrupt == [kind |-> "garbage", value |-> Null]
JSONstringify(user) == [kind |-> "json", value |-> user]
JSONparse(str) ==
  IF str.kind = "json" THEN [ok |-> TRUE, value |-> str.value]
                       ELSE [ok |-> FALSE, value |-> Null]

Min(a, b) == IF a < b THEN a ELSE b

(***************************************************************************)
(* AuthService, as functions of the part of the state it reads and writes  *)
(* (the "world" W): a method is an operator from the world before the call *)
(* to the world after it, so that handlers can call one another as the     *)
(* code does (the interceptor calls isAuthenticated, which calls logout).  *)
(*                                                                         *)
(* History kept in W: window counts what has happened since the running    *)
(* logout sequence began (implicit: it was begun by isAuthenticated()),    *)
(* logoutTrace lists the steps of that sequence (the navigate step with    *)
(* the user a subscriber of currentUser$ holds at that moment), and ran    *)
(* counts the sequences started within the handler that is running,        *)
(* redirects the router.navigate(['/login']) calls of guard and            *)
(* interceptor within it.                                                  *)
(***************************************************************************)
World ==
  [ localStorage |-> localStorage,
    currentUserSubject |-> currentUserSubject,
    isLoggingOut |-> isLoggingOut,
    logoutNav |-> logoutNav,
    redirectNav |-> redirectNav,
    currentUser |-> currentUser,
    subscribed |-> (route = "home"),
    window |-> window,
    logoutTrace |-> logoutTrace,
    implicit |-> FALSE,
    ran |-> 0,
    redirects |-> 0 ]

ClosedWindow ==
  [open |-> FALSE, implicit |-> FALSE, calls |-> 0, clears |-> 0, publishes |-> 0,
   navs |-> 0]

\* what a subscriber of currentUser$ holds: HomeComponent.currentUser while
\* the component is subscribed, else the last value published
SubscriberView(W) ==
  IF W.subscribed THEN W.currentUser ELSE W.currentUserSubject

TraceStep(name, holds) == [step |-> name, holds |-> holds]

Step(W, name) ==
  [W EXCEPT !.logoutTrace =
     Append(@, TraceStep(name, IF name = "navigate" THEN SubscriberView(W) ELSE "-"))]

\* currentUserSubject.next(v): subscribers run synchronously
\* (HomeComponent.ngOnInit: user => this.currentUser = user)
next(W, v) ==
  [W EXCEPT !.currentUserSubject = v,
            !.currentUser = IF W.subscribed THEN v ELSE @]

\* localStorage.removeItem(TOKEN_KEY); localStorage.removeItem(USER_KEY)
removeToken(W) == [W EXCEPT !.localStorage.token = NoToken]
removeUser(W) == [W EXCEPT !.localStorage.user = NoEntry]

\* this.router.navigate(['/login']).then(() => { this.isLoggingOut = false })
navigateThen(W) ==
  [W EXCEPT !.logoutNav = "pending", !.window.navs = @ + 1]

\* this.router.navigate(['/login']) of ErrorInterceptor and AuthGuard
navigateLogin(W) == [W EXCEPT !.redirectNav = TRUE, !.redirects = @ + 1]

\* history: a sequence begins.  Within a window that is still open the
\* counts and the trace go on.
Begin(W) ==
  [W EXCEPT !.ran = @ + 1,
            !.logoutTrace = IF W.window.open THEN @ ELSE <<>>,
            !.window = IF W.window.open
                         THEN [@ EXCEPT !.calls = Min(@ + 1, MaxCalls)]
                         ELSE [ClosedWindow EXCEPT !.open = TRUE, !.calls = 1,
                                                   !.implicit = W.implicit]]

\* the body of logout() past the guard
logoutSequenceNavigateFirst(W) ==
  LET s1 == Step(Begin([W EXCEPT !.isLoggingOut = TRUE]), "flag")
      s2 == Step(navigateThen(s1), "navigate")
      s3 == Step(removeToken(s2), "removeToken")
      s4 == Step([removeUser(s3) EXCEPT !.window.clears = @ + 1], "removeUser")
      s5 == Step([next(s4, Null) EXCEPT !.window.publishes = @ + 1], "next")
  IN  s5

logoutSequence(W) ==
  LET s1 == Step(Begin([W EXCEPT !.isLoggingOut = TRUE]), "flag")
      s2 == Step(removeToken(s1), "removeToken")
      s3 == Step([removeUser(s2) EXCEPT !.window.clears = @ + 1], "removeUser")
      s4 == Step([next(s3, Null) EXCEPT !.window.publishes = @ + 1], "next")
      s5 == Step(navigateThen(s4), "navigate")
  IN  s5

\* AuthService.logout()
logoutNoGuard(W) == logoutSequence(W)

logout(W) ==
  IF W.isLoggingOut
    THEN \* already in progress: return.  Only the call is counted.
         [W EXCEPT !.window.calls = IF W.window.open THEN Min(@ + 1, MaxCalls) ELSE @]
    ELSE logoutSequence(W)

\* this.logout() called by isAuthenticated(): history marks the sequence
logoutImplicit(W) ==
  [logout([W EXCEPT !.implicit = TRUE]) EXCEPT !.implicit = FALSE]

\* AuthService.isAuthenticated() at time t: [ret, w]
isAuthenticatedNoFlagCheck(W, t) ==
  IF W.localStorage.token = NoToken THEN [ret |-> FALSE, w |-> W]
  ELSE IF isTokenExpired(W.localStorage.token, t)
    THEN [ret |-> FALSE, w |-> logoutImplicit(W)]
  ELSE [ret |-> TRUE, w |-> W]

isAuthenticatedNoLogout(W, t) ==
  IF W.isLoggingOut THEN [ret |-> FALSE, w |-> W]
  ELSE IF W.localStorage.token = NoToken THEN [ret |-> FALSE, w |-> W]
  ELSE IF isTokenExpired(W.localStorage.token, t) THEN [ret |-> FALSE, w |-> W]
  ELSE [ret |-> TRUE, w |-> W]

isAuthenticated(W, t) ==
  IF W.isLoggingOut THEN [ret |-> FALSE, w |-> W]
  ELSE IF W.localStorage.token = NoToken THEN [ret |-> FALSE, w |-> W]
  ELSE IF isTokenExpired(W.localStorage.token, t)
    THEN [ret |-> FALSE, w |-> logoutImplicit(W)]       \* this.logout()
  ELSE [ret |-> TRUE, w |-> W]

\* AuthService.getUser()
getUser(W) == W.currentUserSubject

\* AuthService.handleAuthSuccess(response)
handleAuthSuccess(W, response) ==
  next([W EXCEPT !.localStorage =
                    [token |-> response.accessToken,
                     user |-> JSONstringify(response.user)]],
       response.user)

\* AuthService.getUserFromStorage() on the store ls: [user, localStorage]
getUserFromStorage(ls) ==
  IF ls.user.kind # "absent"                       \* if (userStr)
    THEN IF JSONparse(ls.user).ok
           THEN [user |-> JSONparse(ls.user).value, localStorage |-> ls]
           ELSE [user |-> Null,                    \* catch: removeItem(USER_KEY)
                 localStorage |-> [ls EXCEPT !.user = NoEntry]]
    ELSE [user |-> Null, localStorage |-> ls]

\* ErrorInterceptor.intercept, the catchError callback, for an error of
\* the given status at time t.  The error itself is rethrown to the caller.
interceptAlwaysLogout(W, status, t) == IF status = 401 THEN logout(W) ELSE W

interceptRedirectsAnyError(W, status, t) ==
  LET a == isAuthenticated(W, t)
  IN  IF a.ret THEN (IF status = 401 THEN logout(a.w) ELSE a.w) ELSE navigateLogin(a.w)

intercept(W, status, t) ==
  IF status = 401
    THEN LET a == isAuthenticated(W, t)
         IN  IF a.ret THEN logout(a.w) ELSE navigateLogin(a.w)
    ELSE W

\* the catchError callback as a whole: the world it leaves and the error it
\* rethrows to the caller (return throwError(() => error))
catchError(W, status, t) == [w |-> intercept(W, status, t), error |-> status]

\* AuthGuard.canActivate() at time t: [ret, w]
canActivateNoRedirect(W, t) == isAuthenticated(W, t)

canActivate(W, t) ==
  LET a == isAuthenticated(W, t)
  IN  IF a.ret THEN a ELSE [ret |-> FALSE, w |-> navigateLogin(a.w)]

(***************************************************************************)
(* Media items.  Type and title of an item never change; the flags do.     *)
(* Strings are sequences of characters.                                    *)
(***************************************************************************)
ItemType(id) == IF id = 1 THEN "photo" ELSE "audio"
ItemTitle(id) == IF id = 1 THEN <<"V", "a">> ELSE <<"v", "b">>

Tabs == {"photos", "videos", "audio", "favorites", "trash"}

ToLowerChar(c) == IF c = "V" THEN "v" ELSE IF c = "A" THEN "a" ELSE IF c = "B" THEN "b" ELSE c
toLowerCaseKeepsCase(str) == str

toLowerCase(str) == [i \in 1..Len(str) |-> ToLowerChar(str[i])]

RECURSIVE trimStart(_)
trimStart(str) ==
  IF str # <<>> /\ Head(str) = " " THEN trimStart(Tail(str)) ELSE str
RECURSIVE trimEnd(_)
trimEnd(str) ==
  IF str # <<>> /\ str[Len(str)] = " " THEN trimEnd(SubSeq(str, 1, Len(str) - 1)) ELSE str
trim(str) == trimEnd(trimStart(str))

includes(str, q) ==
  \E i \in 0..(Len(str) - Len(q)) : SubSeq(str, i + 1, i + Len(q)) = q

RECURSIVE SelectIds(_, _)
SelectIds(items, q) ==
  IF items = <<>> THEN <<>>
  ELSE LET rest == SelectIds(Tail(items), q)
       IN  IF includes(toLowerCase(ItemTitle(Head(items).id)), q)
             THEN <<Head(items).id>> \o rest ELSE rest

Ids(items) == [i \in 1..Len(items) |-> items[i].id]

\* HomeComponent.applySearch(): the new filteredItems (the displayed items,
\* by id; they are the objects of mediaItems)
applySearch(items, query) ==
  IF trim(query) = <<>> THEN Ids(items)
  ELSE SelectIds(items, trim(toLowerCase(query)))

(***************************************************************************)
(* The backend, as the spec states it: a list request answers with the     *)
(* existing items that match its filter, in id order.                      *)
(***************************************************************************)
MatchesFilter(id, tab, flags) ==
  CASE tab = "photos" -> ItemType(id) = "photo" /\ ~flags.isDeleted
    [] tab = "videos" -> ItemType(id) = "video" /\ ~flags.isDeleted
    [] tab = "audio" -> ItemType(id) = "audio" /\ ~flags.isDeleted
    [] tab = "favorites" -> flags.isFavorite /\ ~flags.isDeleted
    [] tab = "trash" -> flags.isDeleted

RECURSIVE ListFrom(_, _, _)
ListFrom(id, tab, server) ==
  IF id \notin ItemIds THEN <<>>
  ELSE IF server[id].exists /\ MatchesFilter(id, tab, server[id])
    THEN <<[id |-> id, isFavorite |-> server[id].isFavorite,
            isDeleted |-> server[id].isDeleted]>> \o ListFrom(id + 1, tab, server)
    ELSE ListFrom(id + 1, tab, server)

ServerList(tab, server) == ListFrom(1, tab, server)

ServerStorage(server) ==
  [usedBytes |-> Cardinality({id \in ItemIds : server[id].exists}), quotaBytes |-> 2]

NoSummary == [usedBytes |-> -1, quotaBytes |-> -1]      \* storageSummary = null

(***************************************************************************)
(* HTTP requests in flight.  detached: the item object the caller holds is *)
(* no longer an element of mediaItems (a later list response replaced the  *)
(* array).  orphan: the HomeComponent that issued the request has been     *)
(* replaced by a new instance; its continuation still runs, on the old     *)
(* object.                                                                 *)
(*                                                                         *)
(* Responses arrive in any order, so the requests in flight are a          *)
(* multiset; it is kept as a sequence in one canonical order (by Rank).    *)
(***************************************************************************)
\* an optional boolean of a filters object
Undefined == [defined |-> FALSE, value |-> FALSE]
Defined(b) == [defined |-> TRUE, value |-> b]

\* Boolean.prototype.toString()
toString(b) == IF b THEN "true" ELSE "false"

loadMediaFiltersExplicit(tab) ==
  [type |-> CASE tab = "photos" -> "photo"
              [] tab = "videos" -> "video"
              [] tab = "audio" -> "audio"
              [] OTHER -> "",
   favorites |-> Defined(tab = "favorites"),
   trash |-> Defined(tab = "trash")]

\* HomeComponent.loadMedia(): the filters object built from the active tab
\* (type "" stands for an absent type; limit and skip are never set)
loadMediaFilters(tab) ==
  [type |-> CASE tab = "photos" -> "photo"
              [] tab = "videos" -> "video"
              [] tab = "audio" -> "audio"
              [] OTHER -> "",
   favorites |-> IF tab = "favorites" THEN Defined(TRUE) ELSE Undefined,
   trash |-> IF tab = "trash" THEN Defined(TRUE) ELSE Undefined]

\* MediaService.getMedia(filters): the query parameters of GET /media
getMediaParams(filters) ==
  (IF filters.type # "" THEN {<<"type", filters.type>>} ELSE {})
    \cup (IF filters.favorites.defined
            THEN {<<"favorites", toString(filters.favorites.value)>>} ELSE {})
    \cup (IF filters.trash.defined
            THEN {<<"trash", toString(filters.trash.value)>>} ELSE {})

Req(kind, id, value, tab) ==
  [kind |-> kind, id |-> id, value |-> value, tab |-> tab,
   detached |-> FALSE, orphan |-> FALSE, fileId |-> <<>>, summary |-> NoSummary]

\* the query parameters of the list request r of the current component:
\* loadMedia() hands getMedia the filters of the tab it was called on
getMedia(r) == getMediaParams(loadMediaFilters(r.tab))

AuthKinds == {"register", "login"}
MutatingKinds == {"toggleFavorite", "toggleTrash", "deleteMedia"}

KindRank(kind) ==
  CASE kind = "register" -> 0
    [] kind = "login" -> 1
    [] kind = "getMedia" -> 2
    [] kind = "getStorageSummary" -> 3
    [] kind = "toggleFavorite" -> 4
    [] kind = "toggleTrash" -> 5
    [] kind = "deleteMedia" -> 6
    [] kind = "uploadMedia" -> 7

TabRank(tab) ==
  CASE tab = "none" -> 0
    [] tab = "photos" -> 1
    [] tab = "videos" -> 2
    [] tab = "audio" -> 3
    [] tab = "favorites" -> 4
    [] tab = "trash" -> 5

Bit(b) == IF b THEN 1 ELSE 0

Rank(r) ==
  (((((KindRank(r.kind) * 3 + r.id) * 2 + Bit(r.value)) * 6 + TabRank(r.tab)) * 2
      + Bit(r.detached)) * 2 + Bit(r.orphan)) * 4 + (r.summary.usedBytes + 1)

RECURSIVE Insert(_, _)
Insert(reqs, r) ==
  IF reqs = <<>> THEN <<r>>
  ELSE IF Rank(r) <= Rank(Head(reqs)) THEN <<r>> \o reqs
  ELSE <<Head(reqs)>> \o Insert(Tail(reqs), r)

RECURSIVE Canon(_)
Canon(reqs) ==
  IF reqs = <<>> THEN <<>> ELSE Insert(Canon(Tail(reqs)), Head(reqs))

InFlight == DOMAIN requests
Free(reqs) == MaxReq - Len(reqs)
Send(reqs, r) == Insert(reqs, r)
Done(reqs, s) == SubSeq(reqs, 1, s - 1) \o SubSeq(reqs, s + 1, Len(reqs))

SetWorld(w) ==
  /\ localStorage' = w.localStorage
  /\ currentUserSubject' = w.currentUserSubject
  /\ isLoggingOut' = w.isLoggingOut
  /\ logoutNav' = w.logoutNav
  /\ redirectNav' = w.redirectNav
  /\ currentUser' = w.currentUser
  /\ window' = w.window
  /\ logoutTrace' = w.logoutTrace

(***************************************************************************)
(* Initial state: the application has started and AuthService has been     *)
(* constructed from the store left by an earlier run: empty, or a token    *)
(* with a user entry, which may fail to parse.                             *)
(***************************************************************************)
StoredTokens == {Jwt(e) : e \in 1..MaxExp}

InitialStores ==
  {[token |-> NoToken, user |-> NoEntry]}
    \cup {[token |-> tk, user |-> u] :
            tk \in StoredTokens, u \in {JSONstringify("u1"), Corrupt}}

Gone == [exists |-> FALSE, isFavorite |-> FALSE, isDeleted |-> FALSE]

InitialItems ==
  [id \in ItemIds |-> [exists |-> TRUE, isFavorite |-> (id = 1), isDeleted |-> FALSE]]

InitHome ==
  /\ activeTab = "photos"
  /\ searchQuery = <<>>
  /\ mediaItems = <<>>
  /\ filteredItems = <<>>
  /\ isLoading = FALSE
  /\ operatingItems = {}
  /\ storageSummary = NoSummary
  /\ storageLoading = FALSE

InitExpiryIdle ==
  /\ expiryInput = [token |-> NoToken, now |-> 1]
  /\ expiryResult = "unset"

\* RegisterComponent field initialisers (part_004 11-20), HomeComponent's
\* upload fields, no navigation to /home requested
\* nowPlaying = null (nowPlaying?.id is undefined)
NothingPlaying == [id |-> 0, type |-> "none"]

\* passwords are sequences of characters, the other fields strings
\* new Map(), Map.set(key, value), Map.delete(key)
EmptyMap == [key \in {} |-> 0]
MapSet(map, key, value) ==
  [k \in DOMAIN map \cup {key} |-> IF k = key THEN value ELSE map[k]]
MapDelete(map, key) == [k \in DOMAIN map \ {key} |-> map[k]]

EmptyForm == [firstName |-> "", lastName |-> "", email |-> "", password |-> <<>>]

InitForms ==
  /\ uploadingFiles = {}
  /\ uploadProgress = EmptyMap
  /\ uploadError = Null
  /\ registerData = EmptyForm
  /\ confirmPassword = <<>>
  /\ registerLoading = FALSE
  /\ errorMessage = ""
  /\ homeNav = FALSE
  /\ nowPlaying = NothingPlaying
  /\ storagePercentage = [num |-> 0, den |-> 0]
  /\ planDisplayName = "unset"

Init ==
  /\ \E ls \in InitialStores :
       /\ currentUserSubject = getUserFromStorage(ls).user
       /\ localStorage = getUserFromStorage(ls).localStorage
  /\ isLoggingOut = FALSE
  /\ now = 1
  /\ logoutNav = "none"
  /\ redirectNav = FALSE
  /\ route = "login"
  /\ requests = <<>>
  /\ currentUser = Null
  /\ InitHome
  /\ serverItems = InitialItems
  /\ InitExpiryIdle
  /\ InitForms
  /\ window = ClosedWindow
  /\ logoutTrace = <<>>
  /\ runs401 = 0

(***************************************************************************)
(* Time, the router, the pages.                                            *)
(***************************************************************************)
Tick ==
  /\ now < MaxNow
  /\ now' = now + 1
  /\ UNCHANGED <<authVars, homeVars, expiryVars, formVars, route, requests, serverItems,
                 runs401>>

\* HomeComponent.ngOnInit of a new instance: field initialisers, subscribe
\* (a BehaviorSubject emits its value at once), loadMedia(),
\* loadStorageSummary().  Requests of the instance it replaces are orphans;
\* each keeps the activeTab its instance is left with.
ngOnInit(w) ==
  /\ SetWorld([w EXCEPT !.currentUser = w.currentUserSubject])
  /\ activeTab' = "photos"
  /\ searchQuery' = <<>>
  /\ mediaItems' = <<>>
  /\ filteredItems' = <<>>
  /\ operatingItems' = {}
  /\ storageSummary' = NoSummary
  /\ isLoading' = TRUE
  /\ storageLoading' = TRUE
  /\ uploadingFiles' = {}
  /\ uploadProgress' = EmptyMap
  /\ uploadError' = Null
  /\ nowPlaying' = NothingPlaying
  /\ LET old == Canon([s \in InFlight |->
                   IF requests[s].kind \in AuthKinds \/ requests[s].orphan
                     THEN requests[s]
                     ELSE [requests[s] EXCEPT !.orphan = TRUE, !.tab = activeTab]])
         r1 == Send(old, Req("getMedia", 0, FALSE, "photos"))
     IN  requests' = Send(r1, Req("getStorageSummary", 0, FALSE, "none"))

\* A navigation to /home: AuthGuard.canActivate(), and on true the route is
\* activated and HomeComponent created.
NavigateHome ==
  /\ route = "login"
  /\ Free(requests) >= 2
  /\ LET a == canActivate(World, now)
     IN  IF a.ret
           THEN /\ route' = "home"
                /\ ngOnInit(a.w)
           ELSE /\ SetWorld(a.w)
                /\ UNCHANGED <<route, requests, homeVars, uploadVars, nowPlaying>>
  /\ homeNav' = FALSE
  /\ UNCHANGED <<expiryVars, storagePercentage, planDisplayName, registerVars, now, serverItems, runs401>>

\* The promise of logout()'s router.navigate(['/login']) settles.  Resolved
\* (true: /login is activated and HomeComponent destroyed; false: the
\* navigation was cancelled or changed nothing) runs the then-callback;
\* a rejection has no handler.
NavSettle(outcome) ==
  /\ logoutNav = "pending"
  /\ logoutNav' = "none"
  /\ window' = ClosedWindow
  /\ route' = IF outcome = "true" THEN "login" ELSE route
  /\ IF outcome = "rejected"
       THEN UNCHANGED <<isLoggingOut, logoutTrace>>
       ELSE /\ isLoggingOut' = FALSE
            /\ logoutTrace' = Append(logoutTrace, TraceStep("flagCleared", "-"))
  /\ UNCHANGED <<localStorage, currentUserSubject, redirectNav, currentUser,
                 homeVars, expiryVars, formVars, now, requests, serverItems, runs401>>

\* A router.navigate(['/login']) of the interceptor or the guard settles.
RedirectSettle(activated) ==
  /\ redirectNav
  /\ redirectNav' = FALSE
  /\ route' = IF activated THEN "login" ELSE route
  /\ UNCHANGED <<localStorage, currentUserSubject, isLoggingOut, logoutNav,
                 currentUser, window, logoutTrace,
                 homeVars, expiryVars, formVars, now, requests, serverItems, runs401>>

(***************************************************************************)
(* register / login.                                                       *)
(***************************************************************************)
\* AuthService.register(userData) / login(credentials): the POST is sent
AuthRequest(kind) ==
  /\ route = "login"
  /\ Free(requests) >= 1
  /\ requests' = Send(requests, Req(kind, 0, FALSE, "none"))
  /\ UNCHANGED <<authVars, homeVars, expiryVars, formVars, now, route, serverItems, runs401>>

\* tokens a backend hands out at time t, and the token of the repository's
\* integration tests
ResponseTokens(t) == {Jwt(e) : e \in t..MaxExp} \cup {MockJwtToken}

\* 2xx: tap(response => this.handleAuthSuccess(response))
AuthSuccess(s, response) ==
  /\ requests[s].kind \in AuthKinds
  /\ SetWorld(handleAuthSuccess(World, response))
  /\ requests' = Done(requests, s)
  /\ runs401' = 0
  /\ UNCHANGED <<homeVars, expiryVars, formVars, now, route, serverItems>>

\* the statuses of a failed response; 0 is a network error
ErrorStatuses == {401, 500, 0}

Count401(w) == Min(runs401 + w.ran, MaxRuns)

\* register / login answered with an error: the interceptor, then the
\* pipe of register / login, where tap has no error handler
authErrorTapsError(W, status, t) ==
  handleAuthSuccess(intercept(W, status, t), [accessToken |-> Jwt(MaxExp), user |-> "u1"])

authError(W, status, t) == intercept(W, status, t)

AuthFailure(s, status) ==
  /\ requests[s].kind \in AuthKinds
  /\ LET w == authError(World, status, now)
     IN  /\ SetWorld(w)
         /\ runs401' = Count401(w)
  /\ requests' = Done(requests, s)
  /\ UNCHANGED <<homeVars, expiryVars, formVars, now, route, serverItems>>

(***************************************************************************)
(* HomeComponent: logout button.                                           *)
(***************************************************************************)
\* HomeComponent.logout(): this.authService.logout()
LogoutClick ==
  /\ route = "home"
  /\ SetWorld(logout(World))
  /\ UNCHANGED <<homeVars, expiryVars, formVars, now, route, requests, serverItems, runs401>>

(***************************************************************************)
(* HomeComponent: lists and storage.                                       *)
(***************************************************************************)
\* The instance a continuation runs on: the current one, or a replaced one
\* (orphan), whose fields nobody reads any more.
TabOf(r) == IF r.orphan THEN r.tab ELSE activeTab

\* HomeComponent.loadMedia(), the request it sends (MediaService.getMedia
\* with the filter of the active tab)
loadMediaRequest(r) ==
  [Req("getMedia", 0, FALSE, TabOf(r)) EXCEPT !.orphan = r.orphan]

loadStorageSummaryRequest(r) ==
  [Req("getStorageSummary", 0, FALSE, r.tab) EXCEPT !.orphan = r.orphan]

\* HomeComponent.setActiveTab(tab)
setActiveTab(tab) ==
  /\ route = "home"
  /\ Free(requests) >= 1
  /\ activeTab' = tab
  /\ isLoading' = TRUE
  /\ requests' = Send(requests, Req("getMedia", 0, FALSE, tab))
  /\ UNCHANGED <<authVars, searchQuery, mediaItems, filteredItems, operatingItems,
                 storageSummary, storageLoading, expiryVars, formVars, now, route,
                 serverItems, runs401>>

\* a new array of new objects replaces mediaItems: the item objects held by
\* the mutations in flight are no longer its elements
Detach(reqs) ==
  Canon([u \in DOMAIN reqs |->
           IF reqs[u].kind \in MutatingKinds /\ ~reqs[u].orphan
             THEN [reqs[u] EXCEPT !.detached = TRUE] ELSE reqs[u]])

\* getMedia(...).subscribe next
GetMediaSuccess(s) ==
  LET r == requests[s]
      items == ServerList(r.tab, serverItems)
  IN  /\ r.kind = "getMedia"
      /\ IF r.orphan
           THEN /\ requests' = Done(requests, s)
                /\ UNCHANGED <<mediaItems, filteredItems, isLoading>>
           ELSE /\ mediaItems' = items
                /\ filteredItems' = applySearch(items, searchQuery)
                /\ isLoading' = FALSE
                /\ requests' = Detach(Done(requests, s))
      /\ UNCHANGED <<authVars, activeTab, searchQuery, operatingItems, storageSummary,
                     storageLoading, expiryVars, formVars, now, route, serverItems, runs401>>

\* the component's error callback of loadMedia: logout() on 401
loadMediaError(w, status) == IF status = 401 THEN logout(w) ELSE w

\* getMedia(...): the interceptor, then subscribe error
GetMediaError(s, status) ==
  LET r == requests[s]
      e == catchError(World, status, now)
      w == loadMediaError(e.w, e.error)
  IN  /\ r.kind = "getMedia"
      /\ SetWorld(w)
      /\ runs401' = Count401(w)
      /\ isLoading' = IF r.orphan THEN isLoading ELSE FALSE
      /\ requests' = Done(requests, s)
      /\ UNCHANGED <<activeTab, searchQuery, mediaItems, filteredItems, operatingItems,
                     storageSummary, storageLoading, expiryVars, formVars, now, route, serverItems>>

\* getStorageSummary().subscribe next
StorageSuccess(s) ==
  LET r == requests[s]
  IN  /\ r.kind = "getStorageSummary"
      /\ IF r.orphan
           THEN UNCHANGED <<storageSummary, storageLoading>>
           ELSE /\ storageSummary' = IF r.summary = NoSummary
                                       THEN ServerStorage(serverItems) ELSE r.summary
                /\ storageLoading' = FALSE
      /\ requests' = Done(requests, s)
      /\ UNCHANGED <<authVars, activeTab, searchQuery, mediaItems, filteredItems,
                     isLoading, operatingItems, expiryVars, formVars, now, route, serverItems,
                     runs401>>

\* getStorageSummary(): the interceptor, then subscribe error
StorageError(s, status) ==
  LET r == requests[s]
      w == intercept(World, status, now)
  IN  /\ r.kind = "getStorageSummary"
      /\ SetWorld(w)
      /\ runs401' = Count401(w)
      /\ storageLoading' = IF r.orphan THEN storageLoading ELSE FALSE
      /\ requests' = Done(requests, s)
      /\ UNCHANGED <<activeTab, searchQuery, mediaItems, filteredItems, isLoading,
                     operatingItems, storageSummary, expiryVars, formVars, now, route, serverItems>>

(***************************************************************************)
(* HomeComponent: the mutations, behind the operation guard.               *)
(***************************************************************************)
Displayed == {filteredItems[i] : i \in DOMAIN filteredItems}
Cached(id) == CHOOSE i \in DOMAIN mediaItems : mediaItems[i].id = id

\* HomeComponent.toggleFavorite(item), item displayed
toggleFavoriteNoGuard(id) ==
  /\ route = "home"
  /\ id \in Displayed
  /\ Free(requests) >= 1
  /\ operatingItems' = operatingItems \cup {id}
  /\ requests' = Send(requests,
                      Req("toggleFavorite", id, ~mediaItems[Cached(id)].isFavorite, "none"))
  /\ UNCHANGED <<authVars, activeTab, searchQuery, mediaItems, filteredItems, isLoading,
                 storageSummary, storageLoading, expiryVars, formVars, now, route, serverItems,
                 runs401>>

toggleFavorite(id) ==
  /\ route = "home"
  /\ id \in Displayed
  /\ IF id \in operatingItems
       THEN \* if (this.operatingItems.has(item.id)) return;
            UNCHANGED <<operatingItems, requests>>
       ELSE /\ Free(requests) >= 1
            /\ operatingItems' = operatingItems \cup {id}
            /\ requests' = Send(requests,
                 Req("toggleFavorite", id, ~mediaItems[Cached(id)].isFavorite, "none"))
  /\ UNCHANGED <<authVars, activeTab, searchQuery, mediaItems, filteredItems, isLoading,
                 storageSummary, storageLoading, expiryVars, formVars, now, route, serverItems,
                 runs401>>

\* HomeComponent.toggleTrash(item), item displayed
toggleTrash(id) ==
  /\ route = "home"
  /\ id \in Displayed
  /\ IF id \in operatingItems
       THEN UNCHANGED <<operatingItems, requests>>
       ELSE /\ Free(requests) >= 1
            /\ operatingItems' = operatingItems \cup {id}
            /\ requests' = Send(requests,
                 Req("toggleTrash", id, ~mediaItems[Cached(id)].isDeleted, "none"))
  /\ UNCHANGED <<authVars, activeTab, searchQuery, mediaItems, filteredItems, isLoading,
                 storageSummary, storageLoading, expiryVars, formVars, now, route, serverItems,
                 runs401>>

deleteMediaAddsBeforeConfirm(id, confirmed) ==
  /\ route = "home"
  /\ id \in Displayed
  /\ IF id \in operatingItems
       THEN UNCHANGED <<operatingItems, requests>>
       ELSE /\ Free(requests) >= 1
            /\ operatingItems' = operatingItems \cup {id}
            /\ requests' = IF confirmed
                             THEN Send(requests, Req("deleteMedia", id, TRUE, "none"))
                             ELSE requests
  /\ UNCHANGED <<authVars, activeTab, searchQuery, mediaItems, filteredItems, isLoading,
                 storageSummary, storageLoading, expiryVars, formVars, now, route, serverItems,
                 runs401>>

\* HomeComponent.deleteMedia(item), item displayed; confirmed is the answer
\* to confirm(...), asked only past the guard
deleteMedia(id, confirmed) ==
  /\ route = "home"
  /\ id \in Displayed
  /\ IF id \in operatingItems \/ ~confirmed
       THEN UNCHANGED <<operatingItems, requests>>
       ELSE /\ Free(requests) >= 1
            /\ operatingItems' = operatingItems \cup {id}
            /\ requests' = Send(requests, Req("deleteMedia", id, TRUE, "none"))
  /\ UNCHANGED <<authVars, activeTab, searchQuery, mediaItems, filteredItems, isLoading,
                 storageSummary, storageLoading, expiryVars, formVars, now, route, serverItems,
                 runs401>>

\* item.isFavorite = v / item.isDeleted = v on the object the caller holds
SetFlag(items, r, field) ==
  IF r.detached \/ r.orphan THEN items
  ELSE [i \in DOMAIN items |->
          IF items[i].id # r.id THEN items[i]
          ELSE IF field = "isFavorite" THEN [items[i] EXCEPT !.isFavorite = r.value]
          ELSE [items[i] EXCEPT !.isDeleted = r.value]]

ReleaseNothing(r) == operatingItems

Release(r) == IF r.orphan THEN operatingItems ELSE operatingItems \ {r.id}

ToggleFavoriteSuccessNoReload(s) ==
  LET r == requests[s]
  IN  /\ r.kind = "toggleFavorite"
      /\ serverItems[r.id].exists
      /\ serverItems' = [serverItems EXCEPT ![r.id].isFavorite = r.value]
      /\ mediaItems' = SetFlag(mediaItems, r, "isFavorite")
      /\ operatingItems' = Release(r)
      /\ requests' = Done(requests, s)
      /\ UNCHANGED <<authVars, activeTab, searchQuery, filteredItems, isLoading,
                     storageSummary, storageLoading, expiryVars, formVars, now, route,
                     runs401>>

\* toggleFavorite(...).subscribe next, after PATCH /media/{id}/favorite
ToggleFavoriteSuccess(s) ==
  LET r == requests[s]
      reload == TabOf(r) = "favorites" /\ ~r.value
      rest == Done(requests, s)
  IN  /\ r.kind = "toggleFavorite"
      /\ serverItems[r.id].exists
      /\ serverItems' = [serverItems EXCEPT ![r.id].isFavorite = r.value]
      /\ mediaItems' = SetFlag(mediaItems, r, "isFavorite")
      /\ operatingItems' = Release(r)
      /\ requests' = IF reload THEN Send(rest, loadMediaRequest(r)) ELSE rest
      /\ isLoading' = IF reload /\ ~r.orphan THEN TRUE ELSE isLoading
      /\ UNCHANGED <<authVars, activeTab, searchQuery, filteredItems, storageSummary,
                     storageLoading, expiryVars, formVars, now, route, runs401>>

\* toggleTrash(...).subscribe next, after PATCH /media/{id}/trash; the
\* response may carry the storage summary
ToggleTrashSuccess(s, withStorage) ==
  LET r == requests[s]
      reload == TabOf(r) # "trash" /\ r.value
      rest == Done(requests, s)
  IN  /\ r.kind = "toggleTrash"
      /\ serverItems[r.id].exists
      /\ serverItems' = [serverItems EXCEPT ![r.id].isDeleted = r.value]
      /\ mediaItems' = SetFlag(mediaItems, r, "isDeleted")
      /\ operatingItems' = Release(r)
      /\ storageSummary' = IF withStorage /\ ~r.orphan
                             THEN ServerStorage(serverItems') ELSE storageSummary
      /\ requests' = IF reload THEN Send(rest, loadMediaRequest(r)) ELSE rest
      /\ isLoading' = IF reload /\ ~r.orphan THEN TRUE ELSE isLoading
      /\ UNCHANGED <<authVars, activeTab, searchQuery, filteredItems,
                     storageLoading, expiryVars, formVars, now, route, runs401>>

\* deleteMedia(...).subscribe next, after DELETE /media/{id}
DeleteSuccess(s, withStorage) ==
  LET r == requests[s]
      rest == Done(requests, s)
      r1 == IF withStorage THEN rest ELSE Send(rest, loadStorageSummaryRequest(r))
  IN  /\ r.kind = "deleteMedia"
      /\ serverItems[r.id].exists
      /\ Free(rest) >= (IF withStorage THEN 1 ELSE 2)
      /\ serverItems' = [serverItems EXCEPT ![r.id] = Gone]
      /\ operatingItems' = Release(r)
      /\ storageSummary' = IF withStorage /\ ~r.orphan
                             THEN ServerStorage(serverItems') ELSE storageSummary
      /\ storageLoading' = IF ~withStorage /\ ~r.orphan THEN TRUE ELSE storageLoading
      /\ requests' = Send(r1, loadMediaRequest(r))
      /\ isLoading' = IF r.orphan THEN isLoading ELSE TRUE
      /\ UNCHANGED <<authVars, activeTab, searchQuery, mediaItems, filteredItems,
                     expiryVars, formVars, now, route, runs401>>

MutationErrorRetries(s, status) ==
  LET r == requests[s]
      w == intercept(World, status, now)
  IN  /\ r.kind \in MutatingKinds
      /\ SetWorld(w)
      /\ runs401' = Count401(w)
      /\ operatingItems' = Release(r)
      /\ requests' = requests
      /\ UNCHANGED <<activeTab, searchQuery, mediaItems, filteredItems, isLoading,
                     storageSummary, storageLoading, expiryVars, formVars, now, route, serverItems>>

\* a mutation fails: the interceptor, then subscribe error
\* (operatingItems.delete(item.id); alert(...))
MutationError(s, status) ==
  LET r == requests[s]
      w == intercept(World, status, now)
  IN  /\ r.kind \in MutatingKinds
      /\ SetWorld(w)
      /\ runs401' = Count401(w)
      /\ operatingItems' = Release(r)
      /\ requests' = Done(requests, s)
      /\ UNCHANGED <<activeTab, searchQuery, mediaItems, filteredItems, isLoading,
                     storageSummary, storageLoading, expiryVars, formVars, now, route, serverItems>>

(***************************************************************************)
(* The token-expiry check taken alone: any token string, any time.         *)
(* Date.now() is a time of the present era: at least 1.                    *)
(***************************************************************************)
CheckExpiry ==
  /\ expiryResult = "unset"
  /\ expiryResult' = IF isTokenExpired(expiryInput.token, expiryInput.now)
                       THEN "expired" ELSE "valid"
  /\ UNCHANGED <<expiryInput, authVars, homeVars, formVars, now, route, requests,
                 serverItems, runs401>>

(***************************************************************************)
(* Specifications.                                                         *)
(***************************************************************************)
SessionNext ==
  \/ Tick
  \/ NavigateHome
  \/ \E o \in {"true", "false", "rejected"} : NavSettle(o)
  \/ \E b \in BOOLEAN : RedirectSettle(b)
  \/ \E k \in AuthKinds : AuthRequest(k)
  \/ \E s \in InFlight, tk \in ResponseTokens(now), u \in Users :
       AuthSuccess(s, [accessToken |-> tk, user |-> u])
  \/ \E s \in InFlight, st \in ErrorStatuses : AuthFailure(s, st)
  \/ LogoutClick

ListNext ==
  \/ \E s \in InFlight : GetMediaSuccess(s)
  \/ \E s \in InFlight, st \in ErrorStatuses : GetMediaError(s, st)
  \/ \E s \in InFlight : StorageSuccess(s)
  \/ \E s \in InFlight, st \in ErrorStatuses : StorageError(s, st)

MutateNext ==
  \/ \E id \in ItemIds : toggleFavorite(id)
  \/ \E id \in ItemIds : toggleTrash(id)
  \/ \E id \in ItemIds, c \in BOOLEAN : deleteMedia(id, c)
  \/ \E s \in InFlight : ToggleFavoriteSuccess(s)
  \/ \E s \in InFlight, b \in BOOLEAN : ToggleTrashSuccess(s, b)
  \/ \E s \in InFlight, b \in BOOLEAN : DeleteSuccess(s, b)
  \/ \E s \in InFlight, st \in ErrorStatuses : MutationError(s, st)

\* The session: sign-in, guard, logout, expiry, and the list and storage
\* requests of HomeComponent with their failures.
Next ==
  \/ SessionNext
  \/ ListNext
  \/ \E tab \in {"photos", "favorites"} : setActiveTab(tab)

Spec == Init /\ [][Next]_vars

\* The session with HomeComponent staying on its first tab: the requests
\* that can meet a 401 are the sign-in requests and the list and storage
\* requests of ngOnInit.
SessionListNext ==
  \/ SessionNext
  \/ ListNext

SpecSession == Init /\ [][SessionListNext]_vars

\* One HomeComponent in one session: signed in, the component just created
\* (ngOnInit has sent its two requests).
SignedInWith(items) ==
  /\ localStorage = [token |-> Jwt(MaxExp), user |-> JSONstringify("u1")]
  /\ currentUserSubject = "u1"
  /\ isLoggingOut = FALSE
  /\ now = 1
  /\ logoutNav = "none"
  /\ redirectNav = FALSE
  /\ route = "home"
  /\ requests = <<Req("getMedia", 0, FALSE, "photos"),
                  Req("getStorageSummary", 0, FALSE, "none")>>
  /\ currentUser = "u1"
  /\ activeTab = "photos"
  /\ searchQuery = <<>>
  /\ mediaItems = <<>>
  /\ filteredItems = <<>>
  /\ isLoading = TRUE
  /\ operatingItems = {}
  /\ storageSummary = NoSummary
  /\ storageLoading = TRUE
  /\ serverItems = items
  /\ InitExpiryIdle
  /\ InitForms
  /\ window = ClosedWindow
  /\ logoutTrace = <<>>
  /\ runs401 = 0

InitSignedIn == SignedInWith(InitialItems)

HomeNext ==
  \/ ListNext
  \/ MutateNext
  \/ \E tab \in {"photos", "favorites", "trash"} : setActiveTab(tab)
  \/ LogoutClick
  \/ \E o \in {"true", "false", "rejected"} : NavSettle(o)
  \/ \E b \in BOOLEAN : RedirectSettle(b)

SpecHome == InitSignedIn /\ [][HomeNext]_vars

\* One HomeComponent whose two items are both displayed: both are favorites
\* on the backend.
FavoriteItems ==
  [id \in ItemIds |-> [exists |-> TRUE, isFavorite |-> TRUE, isDeleted |-> FALSE]]

InitLibrary == SignedInWith(FavoriteItems)

LibraryNext ==
  \/ \E s \in InFlight : GetMediaSuccess(s)
  \/ \E s \in InFlight : GetMediaError(s, 500)
  \/ \E s \in InFlight : StorageSuccess(s)
  \/ \E s \in InFlight : StorageError(s, 500)
  \/ \E id \in ItemIds : toggleFavorite(id)
  \/ \E id \in ItemIds : toggleTrash(id)
  \/ \E id \in ItemIds, c \in BOOLEAN : deleteMedia(id, c)
  \/ \E s \in InFlight : ToggleFavoriteSuccess(s)
  \/ \E s \in InFlight, b \in BOOLEAN : ToggleTrashSuccess(s, b)
  \/ \E s \in InFlight, b \in BOOLEAN : DeleteSuccess(s, b)
  \/ \E s \in InFlight : MutationError(s, 500)
  \/ \E tab \in {"photos", "favorites", "trash"} : setActiveTab(tab)

SpecLibrary == InitLibrary /\ [][LibraryNext]_vars

\* the backend handles the storage request s: its response, still to be
\* delivered, carries the summary of this moment
StorageServed(s) ==
  /\ requests[s].kind = "getStorageSummary"
  /\ requests[s].summary = NoSummary
  /\ requests' = Canon([requests EXCEPT ![s].summary = ServerStorage(serverItems)])
  /\ UNCHANGED <<authVars, homeVars, expiryVars, formVars, now, route, serverItems, runs401>>

\* One HomeComponent, its storage requests, trash toggles and permanent
\* deletes; a storage response may be delivered after later requests were
\* handled.
QuotaNext ==
  \/ \E s \in InFlight : GetMediaSuccess(s)
  \/ \E s \in InFlight : StorageServed(s)
  \/ \E s \in InFlight : StorageSuccess(s)
  \/ \E id \in ItemIds : deleteMedia(id, TRUE)
  \/ \E s \in InFlight, b \in BOOLEAN : DeleteSuccess(s, b)
  \/ \E id \in ItemIds : toggleTrash(id)
  \/ \E s \in InFlight, b \in BOOLEAN : ToggleTrashSuccess(s, b)
  \/ setActiveTab("favorites")

SpecQuota == InitLibrary /\ [][QuotaNext]_vars

InitExpiry ==
  /\ expiryInput \in [token : AllTokens, now : 1..MaxClock]
  /\ expiryResult = "unset"
  /\ localStorage = [token |-> NoToken, user |-> NoEntry]
  /\ currentUserSubject = Null
  /\ isLoggingOut = FALSE
  /\ now = 1
  /\ logoutNav = "none"
  /\ redirectNav = FALSE
  /\ route = "login"
  /\ requests = <<>>
  /\ currentUser = Null
  /\ InitHome
  /\ InitForms
  /\ serverItems = InitialItems
  /\ window = ClosedWindow
  /\ logoutTrace = <<>>
  /\ runs401 = 0

SpecExpiry == InitExpiry /\ [][CheckExpiry]_vars

\* The operation guard under every kind of completion: one HomeComponent,
\* two displayed items, mutations that succeed or fail with any status.
\* Every request that was sent is answered or fails: the completion of a
\* mutating request is fair.
Complete(id) ==
  \E s \in InFlight :
    /\ requests[s].id = id
    /\ \/ ToggleFavoriteSuccess(s)
       \/ \E b \in BOOLEAN : ToggleTrashSuccess(s, b)
       \/ \E b \in BOOLEAN : DeleteSuccess(s, b)
       \/ \E st \in ErrorStatuses : MutationError(s, st)

GuardNext ==
  \/ \E id \in ItemIds : toggleFavorite(id)
  \/ \E id \in ItemIds : toggleTrash(id)
  \/ \E id \in ItemIds, c \in BOOLEAN : deleteMedia(id, c)
  \/ \E id \in ItemIds : Complete(id)
  \/ \E s \in InFlight : GetMediaSuccess(s)
  \/ \E s \in InFlight : StorageSuccess(s)
  \/ setActiveTab("favorites")

SpecGuard ==
  /\ InitLibrary
  /\ [][GuardNext]_vars
  /\ \A id \in ItemIds : WF_vars(Complete(id))

(***************************************************************************)
(* HomeComponent: upload.  A file is [name, size, type, id]: id is the id   *)
(* the backend gives the item it stores for the file, and the backend      *)
(* stores a file only as the type of item its MIME type says.              *)
(***************************************************************************)
maxSize == 100 * 1024 * 1024

\* an item as the backend first lists it
Item(id) == [id |-> id, isFavorite |-> FALSE, isDeleted |-> FALSE]

ImagePng == <<"i", "m", "a", "g", "e", "/", "p", "n", "g">>
VideoMp4 == <<"v", "i", "d", "e", "o", "/", "m", "p", "4">>
AudioMpeg == <<"a", "u", "d", "i", "o", "/", "m", "p", "e", "g">>
TextPlain == <<"t", "e", "x", "t", "/", "p", "l", "a", "i", "n">>
ImageNoSlash == <<"i", "m", "a", "g", "e">>
NoType == <<>>                                   \* file.type === ''

allowedTypes ==
  {<<"i", "m", "a", "g", "e", "/">>, <<"v", "i", "d", "e", "o", "/">>,
   <<"a", "u", "d", "i", "o", "/">>}

startsWith(str, prefix) ==
  Len(str) >= Len(prefix) /\ SubSeq(str, 1, Len(prefix)) = prefix

FileName(id) == IF id = 1 THEN "f1" ELSE "f2"

Files ==
  [name : {FileName(id) : id \in ItemIds},
   size : {maxSize - 1, maxSize, maxSize + 1},
   type : {ImagePng, VideoMp4, AudioMpeg, TextPlain, ImageNoSlash, NoType},
   id : ItemIds]

\* the type of item the backend makes of a MIME type
StoredAs(type) ==
  IF startsWith(type, <<"i", "m", "a", "g", "e", "/">>) THEN "photo"
  ELSE IF startsWith(type, <<"a", "u", "d", "i", "o", "/">>) THEN "audio"
  ELSE "video"

TooLarge == "File too large. Maximum size is 100MB."
InvalidType == "Invalid file type. Please select an image, video, or audio file."

\* `${file.name}-${Date.now()}`
FileId(file, t) == <<file.name, t>>

\* HomeComponent.uploadFile(file): the request it sends
uploadFile(file) ==
  /\ Free(requests) >= 1
  /\ uploadingFiles' = uploadingFiles \cup {FileId(file, now)}
  /\ uploadProgress' = MapSet(uploadProgress, FileId(file, now), 0)
  /\ uploadError' = Null
  /\ requests' = Send(requests,
       [Req("uploadMedia", file.id, StoredAs(file.type) = ItemType(file.id), "none")
          EXCEPT !.fileId = FileId(file, now)])

\* the files the user can select: the backend has no item of the file's id
\* and is not being sent one
Selectable(file) ==
  /\ file.name = FileName(file.id)
  /\ ~serverItems[file.id].exists
  /\ \A s \in InFlight : requests[s].kind = "uploadMedia" => requests[s].id # file.id

onFileSelectedRejectsAtLimit(file) ==
  /\ route = "home"
  /\ Selectable(file)
  /\ IF file.size >= maxSize
       THEN uploadError' = TooLarge /\ UNCHANGED <<uploadingFiles, uploadProgress, requests>>
     ELSE IF ~\E type \in allowedTypes : startsWith(file.type, type)
       THEN uploadError' = InvalidType /\ UNCHANGED <<uploadingFiles, uploadProgress, requests>>
     ELSE uploadFile(file)
  /\ UNCHANGED <<authVars, homeVars, expiryVars, playerVars, registerVars, homeNav, now, route,
                 serverItems, runs401>>

\* HomeComponent.onFileSelected(event), event.target.files[0] = file
onFileSelected(file) ==
  /\ route = "home"
  /\ Selectable(file)
  /\ IF file.size > maxSize
       THEN uploadError' = TooLarge /\ UNCHANGED <<uploadingFiles, uploadProgress, requests>>
     ELSE IF ~\E type \in allowedTypes : startsWith(file.type, type)
       THEN uploadError' = InvalidType /\ UNCHANGED <<uploadingFiles, uploadProgress, requests>>
     ELSE uploadFile(file)
  /\ UNCHANGED <<authVars, homeVars, expiryVars, playerVars, registerVars, homeNav, now, route,
                 serverItems, runs401>>

\* uploadMedia(...).subscribe next, after POST /media/upload; the response
\* may carry the storage summary
UploadSuccessMerges(s, withStorage) ==
  LET r == requests[s]
      rest == Done(requests, s)
  IN  /\ r.kind = "uploadMedia"
      /\ r.value
      /\ serverItems' = [serverItems EXCEPT ![r.id] =
                           [exists |-> TRUE, isFavorite |-> FALSE, isDeleted |-> FALSE]]
      /\ uploadingFiles' = uploadingFiles \ {r.fileId}
      /\ uploadProgress' = MapDelete(uploadProgress, r.fileId)
      /\ storageSummary' = ServerStorage(serverItems')
      /\ mediaItems' = Append(mediaItems, Item(r.id))
      /\ filteredItems' = applySearch(mediaItems', searchQuery)
      /\ requests' = rest
      /\ UNCHANGED <<authVars, activeTab, searchQuery, operatingItems, isLoading,
                     storageLoading, uploadError, expiryVars, playerVars, registerVars, homeNav, now, route,
                     runs401>>

UploadSuccess(s, withStorage) ==
  LET r == requests[s]
      rest == Done(requests, s)
      r1 == IF withStorage THEN rest ELSE Send(rest, loadStorageSummaryRequest(r))
  IN  /\ r.kind = "uploadMedia"
      /\ r.value
      /\ Free(rest) >= (IF withStorage THEN 1 ELSE 2)
      /\ serverItems' = [serverItems EXCEPT ![r.id] =
                           [exists |-> TRUE, isFavorite |-> FALSE, isDeleted |-> FALSE]]
      /\ uploadingFiles' = uploadingFiles \ {r.fileId}
      /\ uploadProgress' = MapDelete(uploadProgress, r.fileId)
      /\ storageSummary' = IF withStorage THEN ServerStorage(serverItems') ELSE storageSummary
      /\ storageLoading' = IF withStorage THEN storageLoading ELSE TRUE
      /\ requests' = Send(r1, loadMediaRequest(r))
      /\ isLoading' = TRUE
      /\ UNCHANGED <<authVars, activeTab, searchQuery, mediaItems, filteredItems,
                     operatingItems, uploadError, expiryVars, playerVars, registerVars, homeNav, now, route,
                     runs401>>

\* the body of a failed upload's response: error.error?.error
ErrorBodies == {"none", "Storage quota exceeded", "Unsupported file"}

UploadStatuses == {413, 400, 401, 500, 0}

includesQuota(body) == body = "Storage quota exceeded"

\* the message uploadMedia's error callback sets
uploadErrorMessage(status, body) ==
  IF status = 413
    THEN IF body # "none" /\ includesQuota(body) THEN body ELSE TooLarge
  ELSE IF status = 400
    THEN IF body # "none" THEN body
         ELSE "Invalid file. Please check the file type and try again."
  ELSE IF status = 401 THEN "Authentication failed. Please log in again."
  ELSE "Upload failed. Please try again."

UploadErrorKeepsProgress(s, status, body) ==
  LET r == requests[s]
      e == catchError(World, status, now)
  IN  /\ r.kind = "uploadMedia"
      /\ SetWorld(e.w)
      /\ runs401' = Count401(e.w)
      /\ uploadingFiles' = uploadingFiles \ {r.fileId}
      /\ uploadProgress' = uploadProgress
      /\ uploadError' = uploadErrorMessage(e.error, body)
      /\ requests' = Done(requests, s)
      /\ UNCHANGED <<homeVars, expiryVars, playerVars, registerVars, homeNav, now, route, serverItems>>

\* an upload fails: the interceptor, then subscribe error
UploadError(s, status, body) ==
  LET r == requests[s]
      e == catchError(World, status, now)
  IN  /\ r.kind = "uploadMedia"
      /\ SetWorld(e.w)
      /\ runs401' = Count401(e.w)
      /\ uploadingFiles' = uploadingFiles \ {r.fileId}
      /\ uploadProgress' = MapDelete(uploadProgress, r.fileId)
      /\ uploadError' = uploadErrorMessage(e.error, body)
      /\ requests' = Done(requests, s)
      /\ UNCHANGED <<homeVars, expiryVars, playerVars, registerVars, homeNav, now, route, serverItems>>

NoItems == [id \in ItemIds |-> Gone]

\* One HomeComponent over an account with no items yet.
InitUpload == SignedInWith(NoItems)

UploadNext ==
  \/ \E file \in Files : onFileSelected(file)
  \/ \E s \in InFlight, b \in BOOLEAN : UploadSuccess(s, b)
  \/ \E s \in InFlight, st \in UploadStatuses, body \in ErrorBodies : UploadError(s, st, body)
  \/ \E s \in InFlight : GetMediaSuccess(s)
  \/ \E s \in InFlight : StorageSuccess(s)
  \/ \E tab \in {"photos", "audio"} : setActiveTab(tab)

SpecUpload == InitUpload /\ [][UploadNext]_vars

(***************************************************************************)
(* RegisterComponent.  The form fields are bound to the template's inputs. *)
(***************************************************************************)
Passwords == {<<>>, <<"1", "2", "3", "4", "5">>, <<"1", "2", "3", "4", "5", "6">>}

Forms ==
  [firstName : {"", "Test"}, lastName : {"", "User"}, email : {"", "test@example.com"},
   password : Passwords]

\* the user edits the form
editForm(data, confirm) ==
  /\ route = "login"
  /\ registerData' = data
  /\ confirmPassword' = confirm
  /\ UNCHANGED <<authVars, homeVars, expiryVars, playerVars, uploadVars, registerLoading, errorMessage,
                 homeNav, now, route, requests, serverItems, runs401>>

FillAllFields == "Please fill in all fields"
NoMatch == "Passwords do not match"
TooShort == "Password must be at least 6 characters long"
RegistrationFailed == "Registration failed. Please try again."

onSubmitLengthFirst ==
  /\ route = "login"
  /\ IF \/ registerData.firstName = "" \/ registerData.lastName = ""
        \/ registerData.email = "" \/ registerData.password = <<>>
       THEN /\ errorMessage' = FillAllFields
            /\ UNCHANGED <<registerLoading, requests>>
     ELSE IF Len(registerData.password) < 6
       THEN /\ errorMessage' = TooShort
            /\ UNCHANGED <<registerLoading, requests>>
     ELSE IF registerData.password # confirmPassword
       THEN /\ errorMessage' = NoMatch
            /\ UNCHANGED <<registerLoading, requests>>
     ELSE /\ Free(requests) >= 1
          /\ registerLoading' = TRUE
          /\ errorMessage' = ""
          /\ requests' = Send(requests, Req("register", 0, FALSE, "none"))
  /\ UNCHANGED <<authVars, homeVars, expiryVars, playerVars, uploadVars, registerData, confirmPassword,
                 homeNav, now, route, serverItems, runs401>>

\* RegisterComponent.onSubmit()
onSubmit ==
  /\ route = "login"
  /\ IF \/ registerData.firstName = "" \/ registerData.lastName = ""
        \/ registerData.email = "" \/ registerData.password = <<>>
       THEN /\ errorMessage' = FillAllFields
            /\ UNCHANGED <<registerLoading, requests>>
     ELSE IF registerData.password # confirmPassword
       THEN /\ errorMessage' = NoMatch
            /\ UNCHANGED <<registerLoading, requests>>
     ELSE IF Len(registerData.password) < 6
       THEN /\ errorMessage' = TooShort
            /\ UNCHANGED <<registerLoading, requests>>
     ELSE /\ Free(requests) >= 1
          /\ registerLoading' = TRUE
          /\ errorMessage' = ""
          /\ requests' = Send(requests, Req("register", 0, FALSE, "none"))
  /\ UNCHANGED <<authVars, homeVars, expiryVars, playerVars, uploadVars, registerData, confirmPassword,
                 homeNav, now, route, serverItems, runs401>>

\* register(...).subscribe next: tap(handleAuthSuccess), then the
\* component's callback (router.navigate(['/home']))
RegisterSuccess(s, response) ==
  /\ requests[s].kind = "register"
  /\ SetWorld(handleAuthSuccess(World, response))
  /\ requests' = Done(requests, s)
  /\ runs401' = 0
  /\ registerLoading' = FALSE
  /\ homeNav' = TRUE
  /\ UNCHANGED <<homeVars, expiryVars, playerVars, uploadVars, registerData, confirmPassword,
                 errorMessage, now, route, serverItems>>

\* the body of a failed registration's response: error.error?.error
RegisterBodies == {"none", "Email already registered"}

\* register(...).subscribe error, behind the interceptor
RegisterFailure(s, status, body) ==
  /\ requests[s].kind = "register"
  /\ LET w == authError(World, status, now)
     IN  /\ SetWorld(w)
         /\ runs401' = Count401(w)
  /\ requests' = Done(requests, s)
  /\ registerLoading' = FALSE
  /\ errorMessage' = IF body # "none" THEN body ELSE RegistrationFailed
  /\ UNCHANGED <<homeVars, expiryVars, playerVars, uploadVars, registerData, confirmPassword,
                 homeNav, now, route, serverItems>>

\* The register page in a session that is not signed in.
InitRegister ==
  /\ localStorage = [token |-> NoToken, user |-> NoEntry]
  /\ currentUserSubject = Null
  /\ isLoggingOut = FALSE
  /\ now = 1
  /\ logoutNav = "none"
  /\ redirectNav = FALSE
  /\ route = "login"
  /\ requests = <<>>
  /\ currentUser = Null
  /\ InitHome
  /\ serverItems = InitialItems
  /\ InitExpiryIdle
  /\ InitForms
  /\ window = ClosedWindow
  /\ logoutTrace = <<>>
  /\ runs401 = 0

RegisterNext ==
  \/ \E data \in Forms, confirm \in Passwords : editForm(data, confirm)
  \/ onSubmit
  \/ \E s \in InFlight, u \in Users :
       RegisterSuccess(s, [accessToken |-> Jwt(MaxExp), user |-> u])
  \/ \E s \in InFlight, st \in ErrorStatuses, body \in RegisterBodies :
       RegisterFailure(s, st, body)

SpecRegister == InitRegister /\ [][RegisterNext]_vars

(***************************************************************************)
(* The storage bar alone.  A percentage is a number that need not be       *)
(* whole: it is kept as a fraction [num, den] with den > 0.                *)
(***************************************************************************)
Fraction(n, d) == IF d < 0 THEN [num |-> -n, den |-> -d] ELSE [num |-> n, den |-> d]
Whole(n) == [num |-> n, den |-> 1]

\* a / b and a * k
Divide(a, b) == Fraction(a, b)
Times(x, k) == [num |-> x.num * k, den |-> x.den]

Less(x, y) == x.num * y.den < y.num * x.den

\* Math.min(x, y)
MathMin(x, y) == IF Less(y, x) THEN y ELSE x

getStoragePercentageNoClamp(summary) ==
  IF summary = NoSummary \/ summary.quotaBytes = 0 THEN Whole(0)
  ELSE Times(Divide(summary.usedBytes, summary.quotaBytes), 100)

\* HomeComponent.getStoragePercentage() with this.storageSummary = summary
getStoragePercentage(summary) ==
  IF summary = NoSummary \/ summary.quotaBytes = 0 THEN Whole(0)
  ELSE MathMin(Whole(100), Times(Divide(summary.usedBytes, summary.quotaBytes), 100))

Summaries == [usedBytes : 0..MaxBytes, quotaBytes : 0..MaxBytes] \cup {NoSummary}

\* the template reads getStoragePercentage()
ShowStorage ==
  /\ route = "home"
  /\ storagePercentage' = getStoragePercentage(storageSummary)
  /\ UNCHANGED <<authVars, homeVars, expiryVars, uploadVars, registerVars, homeNav,
                 nowPlaying, planDisplayName, now, route, requests, serverItems, runs401>>

\* a storage summary arrives (loadStorageSummary's next, or the storage
\* field of a mutation's response)
ReceiveStorage(summary) ==
  /\ route = "home"
  /\ summary # NoSummary
  /\ storageSummary' = summary
  /\ UNCHANGED <<authVars, activeTab, searchQuery, mediaItems, filteredItems, isLoading,
                 operatingItems, storageLoading, expiryVars, formVars, now, route, requests,
                 serverItems, runs401>>

\* signed in at /home, nothing in flight, no summary loaded yet
InitStorage ==
  /\ localStorage = [token |-> Jwt(MaxExp), user |-> JSONstringify("u1")]
  /\ currentUserSubject = "u1"
  /\ isLoggingOut = FALSE
  /\ now = 1
  /\ logoutNav = "none"
  /\ redirectNav = FALSE
  /\ route = "home"
  /\ requests = <<>>
  /\ currentUser = "u1"
  /\ InitHome
  /\ serverItems = InitialItems
  /\ InitExpiryIdle
  /\ InitForms
  /\ window = ClosedWindow
  /\ logoutTrace = <<>>
  /\ runs401 = 0

StorageNext ==
  \/ ShowStorage
  \/ \E summary \in Summaries : ReceiveStorage(summary)

SpecStorage == InitStorage /\ [][StorageNext]_vars

(***************************************************************************)
(* The plan name.  Quotas are counted in a unit of which GiB make one      *)
(* gibibyte, so that quotas above 100 GiB stay small numbers.              *)
(***************************************************************************)
getPlanDisplayNameStrict(quotaBytes) ==
  LET gb == Divide(quotaBytes, GiB)
  IN  IF Less(gb, Whole(5)) THEN "Free Plan"
      ELSE IF Less(gb, Whole(100)) THEN "Pro Plan"
      ELSE "Enterprise Plan"

\* MediaService.getPlanDisplayName(quotaBytes)
MediaService_getPlanDisplayName(quotaBytes) ==
  LET gb == Divide(quotaBytes, GiB)
  IN  IF ~Less(Whole(5), gb) THEN "Free Plan"
      ELSE IF ~Less(Whole(100), gb) THEN "Pro Plan"
      ELSE "Enterprise Plan"

\* HomeComponent.getPlanDisplayName() with this.storageSummary = summary
getPlanDisplayName(summary) ==
  IF summary = NoSummary THEN ""
  ELSE MediaService_getPlanDisplayName(summary.quotaBytes)

Quotas == [usedBytes : {0}, quotaBytes : 0..(MaxGiB * GiB)]

\* the template reads getPlanDisplayName()
ShowPlan ==
  /\ route = "home"
  /\ planDisplayName' = getPlanDisplayName(storageSummary)
  /\ UNCHANGED <<authVars, homeVars, expiryVars, uploadVars, registerVars, homeNav,
                 nowPlaying, storagePercentage, now, route, requests, serverItems,
                 runs401>>

PlanNext ==
  \/ ShowPlan
  \/ \E summary \in Quotas : ReceiveStorage(summary)

SpecPlan == InitStorage /\ [][PlanNext]_vars

(***************************************************************************)
(* HomeComponent: the audio player.  The items handed to playAudio are     *)
(* [id, type]: the two fields it reads.                                    *)
(***************************************************************************)
PlayItems == [id : ItemIds, type : {"photo", "video", "audio"}]

playAudioAnyType(item) ==
  /\ route = "home"
  /\ nowPlaying' = IF nowPlaying.id = item.id THEN nowPlaying ELSE item
  /\ UNCHANGED <<authVars, homeVars, expiryVars, uploadVars, registerVars, homeNav,
                 storagePercentage, planDisplayName, now, route, requests, serverItems,
                 runs401>>

\* HomeComponent.playAudio(item)
playAudio(item) ==
  /\ route = "home"
  /\ nowPlaying' = IF item.type = "audio"
                     THEN IF nowPlaying.id = item.id THEN nowPlaying ELSE item
                     ELSE nowPlaying
  /\ UNCHANGED <<authVars, homeVars, expiryVars, uploadVars, registerVars, homeNav,
                 storagePercentage, planDisplayName, now, route, requests, serverItems,
                 runs401>>

\* HomeComponent.stopAudio()
stopAudio ==
  /\ route = "home"
  /\ nowPlaying' = NothingPlaying
  /\ UNCHANGED <<authVars, homeVars, expiryVars, uploadVars, registerVars, homeNav,
                 storagePercentage, planDisplayName, now, route, requests, serverItems,
                 runs401>>

\* HomeComponent.isCurrentlyPlaying(item) with this.nowPlaying = playing
isCurrentlyPlaying(playing, item) == playing.id = item.id

PlayerNext ==
  \/ \E item \in PlayItems : playAudio(item)
  \/ stopAudio
  \/ \E tab \in Tabs : setActiveTab(tab)
  \/ \E s \in InFlight : GetMediaSuccess(s)
  \/ \E s \in InFlight : StorageSuccess(s)

SpecPlayer == InitSignedIn /\ [][PlayerNext]_vars

(***************************************************************************)
(* The search box alone: a cached list and a typed query, chosen at the    *)
(* start; onSearch and clearSearch apply applySearch.                      *)
(***************************************************************************)
Chars == {" ", "v", "V", "a", "A", "b"}

RECURSIVE Strings(_)
Strings(n) ==
  IF n = 0 THEN {<<>>}
  ELSE Strings(n - 1) \cup {Append(q, c) : q \in {r \in Strings(n - 1) : Len(r) = n - 1},
                                           c \in Chars}

Queries == Strings(MaxQuery)

\* the lists a response can put in mediaItems, in any order
CachedLists == {<<>>, <<Item(1)>>, <<Item(2)>>, <<Item(1), Item(2)>>, <<Item(2), Item(1)>>}

onSearchReloads ==
  /\ route = "home"
  /\ filteredItems' = applySearch(mediaItems, searchQuery)
  /\ isLoading' = TRUE
  /\ requests' = Send(requests, Req("getMedia", 0, FALSE, activeTab))
  /\ UNCHANGED <<authVars, activeTab, searchQuery, mediaItems, operatingItems,
                 storageSummary, storageLoading, expiryVars, formVars, now, route,
                 serverItems, runs401>>

\* HomeComponent.onSearch()
onSearch ==
  /\ route = "home"
  /\ filteredItems' = applySearch(mediaItems, searchQuery)
  /\ UNCHANGED <<authVars, activeTab, searchQuery, mediaItems, isLoading, operatingItems,
                 storageSummary, storageLoading, expiryVars, formVars, now, route, requests,
                 serverItems, runs401>>

\* HomeComponent.clearSearch()
clearSearch ==
  /\ route = "home"
  /\ searchQuery' = <<>>
  /\ filteredItems' = applySearch(mediaItems, searchQuery')
  /\ UNCHANGED <<authVars, activeTab, mediaItems, isLoading, operatingItems,
                 storageSummary, storageLoading, expiryVars, formVars, now, route, requests,
                 serverItems, runs401>>

\* signed in at /home, a list loaded under an empty query, a query typed
InitSearch ==
  /\ searchQuery \in Queries
  /\ mediaItems \in CachedLists
  /\ filteredItems = Ids(mediaItems)
  /\ localStorage = [token |-> Jwt(MaxExp), user |-> JSONstringify("u1")]
  /\ currentUserSubject = "u1"
  /\ isLoggingOut = FALSE
  /\ now = 1
  /\ logoutNav = "none"
  /\ redirectNav = FALSE
  /\ route = "home"
  /\ requests = <<>>
  /\ currentUser = "u1"
  /\ activeTab = "photos"
  /\ isLoading = FALSE
  /\ operatingItems = {}
  /\ storageSummary = NoSummary
  /\ storageLoading = FALSE
  /\ serverItems = InitialItems
  /\ InitExpiryIdle
  /\ InitForms
  /\ window = ClosedWindow
  /\ logoutTrace = <<>>
  /\ runs401 = 0

SearchNext == onSearch \/ clearSearch

SpecSearch == InitSearch /\ [][SearchNext]_vars

\* HomeComponent with a query typed, switching tabs
InitTabs == InitSearch /\ Len(searchQuery) <= 1

TabsNext ==
  \/ \E tab \in Tabs : setActiveTab(tab)
  \/ \E s \in InFlight : GetMediaSuccess(s)
  \/ onSearch
  \/ clearSearch

SpecTabs == InitTabs /\ [][TabsNext]_vars

(***************************************************************************)
(* Properties.                                                             *)
(***************************************************************************)
RECURSIVE IsPrefix(_, _)
IsPrefix(a, b) ==
  \/ a = <<>>
  \/ /\ b # <<>>
     /\ Head(a) = Head(b)
     /\ IsPrefix(Tail(a), Tail(b))

EmptyStore == [token |-> NoToken, user |-> NoEntry]
Cleared(W) == W.localStorage = EmptyStore /\ getUser(W) = Null

\* the program state a method of AuthService can change (history left out)
ProgramState(W) ==
  <<W.localStorage, W.currentUserSubject, W.isLoggingOut, W.logoutNav, W.redirectNav,
    W.currentUser>>

\* C1: while the navigation started by the first logout() has not settled,
\* the in-progress flag is set, the entries were cleared once, null was
\* published once and logout requested one navigation, however many times
\* logout() was invoked; and a logout() invoked while the flag is set
\* changes nothing.
C1_InWindow ==
  window.open =>
    /\ isLoggingOut
    /\ logoutNav = "pending"
    /\ window.calls >= 1
    /\ window.clears = 1
    /\ window.publishes = 1
    /\ window.navs = 1

C1_LaterCallIsNoOp ==
  isLoggingOut =>
    /\ ProgramState(logout(World)) = ProgramState(World)
    /\ logout(World).logoutTrace = logoutTrace
    /\ logout(World).ran = 0

C1_SingleFireLogout == C1_InWindow /\ C1_LaterCallIsNoOp

\* C1 witness: logout() was invoked again while the sequence runs
C1_Witness ==
  /\ window.open
  /\ window.calls >= 2

\* C2 (as claimed): for the requests of one session that fail with 401, the
\* logout sequence runs at most once
C2_AtMostOneSequenceFor401s == runs401 <= 1

\* C4: isAuthenticated() is false while a logout is in progress, whatever
\* the store holds, and false when no token is stored
C4_FalseWhileLoggingOut ==
  (isLoggingOut \/ localStorage.token = NoToken) => ~isAuthenticated(World, now).ret

\* C4 witness: a logout is in progress and the store holds a token that is
\* not expired
C4_Witness ==
  /\ isLoggingOut
  /\ localStorage.token # NoToken
  /\ ~isTokenExpired(localStorage.token, now)

\* C5 (as claimed): token and user entry are both present or both absent,
\* and getUser() is non-null exactly when the user entry is present
C5_NoPartialSession ==
  /\ (localStorage.token = NoToken) <=> (localStorage.user = NoEntry)
  /\ (getUser(World) # Null) <=> (localStorage.user # NoEntry)

\* C6: the steps of a logout sequence are taken in the order flag set,
\* token removed, user removed, null published, navigation requested, flag
\* cleared; a subscriber holds null when the navigation is requested; the
\* flag is cleared only once the navigation has settled.
LogoutOrder == <<"flag", "removeToken", "removeUser", "next", "navigate", "flagCleared">>
StepNames(trace) == [i \in DOMAIN trace |-> trace[i].step]

C6_LogoutOrder ==
  /\ IsPrefix(StepNames(logoutTrace), LogoutOrder)
  /\ \A i \in DOMAIN logoutTrace :
       logoutTrace[i].step = "navigate" => logoutTrace[i].holds = Null
  /\ logoutNav = "pending" => (Len(logoutTrace) = 5 /\ isLoggingOut)
  /\ (Len(logoutTrace) = 6 /\ ~window.open) \/ Len(logoutTrace) \in {0, 5}

\* C6 witness: a sequence has run to its end
C6_Witness == StepNames(logoutTrace) = LogoutOrder /\ ~isLoggingOut

\* C3: of the mutating requests a HomeComponent has sent, at most one per
\* item id is in flight; a toggleFavorite, toggleTrash or deleteMedia called
\* on an id that is in operatingItems sends nothing and changes nothing.
MutationsInFlight(id) ==
  {s \in InFlight : /\ requests[s].kind \in MutatingKinds
                    /\ requests[s].id = id
                    /\ ~requests[s].orphan}

C3_OnePerItem == \A id \in ItemIds : Cardinality(MutationsInFlight(id)) <= 1

C3_GuardedCallIsNoOp ==
  \A id \in ItemIds :
    (/\ id \in operatingItems
     /\ \/ toggleFavorite(id)
        \/ toggleTrash(id)
        \/ \E c \in BOOLEAN : deleteMedia(id, c))
      => UNCHANGED vars

C3_OperationGuard == [](C3_OnePerItem) /\ [][C3_GuardedCallIsNoOp]_vars

\* C3 witness: the toggleFavorite request of a displayed item is in flight
\* and there is room for another request: the item can be toggled again
C3_Witness ==
  \E id \in ItemIds :
    /\ route = "home"
    /\ id \in Displayed
    /\ id \in operatingItems
    /\ Free(requests) >= 1
    /\ Cardinality(MutationsInFlight(id)) = 1
    /\ \E s \in MutationsInFlight(id) : requests[s].kind = "toggleFavorite"

\* C7 (as claimed): once handleAuthSuccess has handled a register or login
\* response, the store holds the token and the user of the response,
\* getUser() returns that user, and isAuthenticated() is true
C7_Step ==
  \A s \in InFlight, tk \in ResponseTokens(now), u \in Users :
    AuthSuccess(s, [accessToken |-> tk, user |-> u]) =>
      /\ localStorage' = [token |-> tk, user |-> JSONstringify(u)]
      /\ getUser(World') = u
      /\ isAuthenticated(World', now').ret

C7_AuthenticatedAfterSuccess == [][C7_Step]_vars

\* C8: the expiry check gives expired for a token that does not split into
\* three segments, whose payload does not decode, that has no exp claim, or
\* whose exp is before now; and valid for a token whose exp is now or later.
C8_FailsClosed ==
  LET tk == expiryInput.token
      wellFormed == tk.parts = 3 /\ tk.decodable /\ tk.hasExp
  IN  expiryResult # "unset" =>
        /\ (~wellFormed \/ tk.exp < expiryInput.now) => expiryResult = "expired"
        /\ (wellFormed /\ tk.exp >= expiryInput.now) => expiryResult = "valid"

\* C8 witness: a well-formed token checked in the very second it expires
C8_Witness ==
  /\ expiryResult = "valid"
  /\ expiryInput.token.exp = expiryInput.now

\* C9: with no logout in progress and an expired or malformed token stored,
\* isAuthenticated() returns false and has run the logout sequence: token
\* and user entries are absent and getUser() is null; a logout() that
\* follows changes nothing, and a cleared session stays cleared under
\* logout() at any later time.
C9_Call ==
  (~isLoggingOut /\ localStorage.token # NoToken
     /\ isTokenExpired(localStorage.token, now)) =>
    LET a == isAuthenticated(World, now)
    IN  /\ ~a.ret
        /\ a.w.ran = 1
        /\ a.w.isLoggingOut
        /\ Cleared(a.w)
        /\ ProgramState(logout(a.w)) = ProgramState(a.w)

C10_FailedAuthStoresNothing ==
  (Cleared(World) /\ \E s \in InFlight : requests[s].kind \in AuthKinds) =>
    \A status \in ErrorStatuses :
      LET w == authError(World, status, now)
      IN  /\ Cleared(w)
          /\ ~isAuthenticated(w, now).ret
          /\ isAuthenticated(w, now).w.ran = 0

\* C10 witness: a register or login request is in flight in an
\* unauthenticated session, so that its failure is delivered there
C10_Witness ==
  /\ Cleared(World)
  /\ ~isLoggingOut
  /\ \E s \in InFlight : requests[s].kind \in AuthKinds

\* the world apart from the history fields and the two navigation requests
SessionState(W) == <<W.localStorage, W.currentUserSubject, W.isLoggingOut, W.currentUser>>

C12_ErrorsPassThrough ==
  \A status \in ErrorStatuses :
    LET e == catchError(World, status, now)
    IN  /\ e.error = status
        /\ status # 401 =>
             /\ ProgramState(e.w) = ProgramState(World)
             /\ e.w.ran = 0
             /\ e.w.redirects = 0
             /\ e.w.window = window

\* C12 witness: a list request is in flight at /home with no valid session
\* left and no navigation requested, so that an error other than 401
\* delivered now could show a change of session state or a redirect
C12_Witness ==
  /\ route = "home"
  /\ \E s \in InFlight : requests[s].kind = "getMedia" /\ ~requests[s].orphan
  /\ ~isLoggingOut
  /\ ~redirectNav
  /\ localStorage.token = NoToken

\* C13: when the getMedia request of loadMedia fails with 401 while
\* isAuthenticated() is still true, the interceptor's logout() and the
\* logout() of loadMedia's error callback together run one logout sequence:
\* the entries are cleared once, null is published once, one navigation to
\* /login is requested and pending, and the session is cleared.
C13_One401OneLogout ==
  (/\ \E s \in InFlight : requests[s].kind = "getMedia"
   /\ isAuthenticated(World, now).ret) =>
    LET e == catchError(World, 401, now)
        w == loadMediaError(e.w, e.error)
    IN  /\ w.ran = 1
        /\ w.window.open
        /\ w.window.calls = 2
        /\ w.window.clears = 1
        /\ w.window.publishes = 1
        /\ w.window.navs = 1
        /\ w.logoutNav = "pending"
        /\ w.isLoggingOut
        /\ Cleared(w)

\* C13 witness: a 401 has been delivered to an authenticated session: one
\* explicit sequence has run, logout() was called twice, and the navigation
\* to /login is pending
C13_Witness ==
  /\ runs401 = 1
  /\ window.open
  /\ ~window.implicit
  /\ window.calls = 2
  /\ window.clears = 1
  /\ window.publishes = 1
  /\ logoutNav = "pending"
  /\ route = "home"

\* C14: the ids in operatingItems are the ids of the mutating requests this
\* HomeComponent has sent and that have not completed; a call that sends a
\* mutating request has put the id in the set; a deleteMedia whose
\* confirmation is declined changes nothing.
C14_SetIsInFlight ==
  operatingItems = {id \in ItemIds : MutationsInFlight(id) # {}}

C14_Call ==
  \A id \in ItemIds :
    /\ (/\ \/ toggleFavorite(id)
           \/ toggleTrash(id)
           \/ \E c \in BOOLEAN : deleteMedia(id, c)
        /\ requests' # requests)
         => (id \in operatingItems' /\ id \notin operatingItems)
    /\ deleteMedia(id, FALSE) => UNCHANGED vars

C14_OperatingItems == [](C14_SetIsInFlight) /\ [][C14_Call]_vars

\* C14 witness: the deleteMedia request of one displayed item is in flight,
\* and another displayed item is not being operated on, so that a delete of
\* it can be declined
C14_Witness ==
  \E id \in ItemIds, other \in ItemIds :
    /\ route = "home"
    /\ id \in operatingItems
    /\ \E s \in MutationsInFlight(id) : requests[s].kind = "deleteMedia"
    /\ other \in Displayed
    /\ other \notin operatingItems
    /\ Free(requests) >= 1

\* the flags of the displayed item id, as the cached object holds them
Shown(id) == mediaItems[Cached(id)]

ListsInFlight == {s \in InFlight : requests[s].kind = "getMedia"}

\* C15 (as claimed): in every state every displayed item satisfies the
\* predicate of the active tab, on the flags the displayed object holds.
C15_DisplayedMatchTab ==
  \A id \in Displayed : MatchesFilter(id, activeTab, Shown(id))

\* C15, weaker: the same once no list request is in flight and nothing is
\* loading.  The code fails this too (an item restored on the trash tab is
\* not reloaded).
C15_SettledMatchTab ==
  (ListsInFlight = {} /\ ~isLoading) => C15_DisplayedMatchTab

\* the letters of the model's alphabet, compared without regard to case
SameLetter(c, d) ==
  \/ c = d
  \/ {c, d} = {"v", "V"}
  \/ {c, d} = {"a", "A"}
  \/ {c, d} = {"b", "B"}

\* title contains q, compared case-insensitively
ContainsCI(title, q) ==
  \E k \in 0..(Len(title) - Len(q)) :
    \A i \in 1..Len(q) : SameLetter(title[k + i], q[i])

\* q without its leading and trailing blanks
Trimmed(q) ==
  IF \A i \in 1..Len(q) : q[i] = " " THEN <<>>
  ELSE LET lo == CHOOSE i \in 1..Len(q) : q[i] # " " /\ \A j \in 1..(i - 1) : q[j] = " "
           hi == CHOOSE i \in 1..Len(q) : q[i] # " " /\ \A j \in (i + 1)..Len(q) : q[j] = " "
       IN  SubSeq(q, lo, hi)

\* the ids of the cached items whose title contains q, in the cached order
Matching(items, q) ==
  LET keep == {i \in 1..Len(items) : ContainsCI(ItemTitle(items[i].id), q)}
      Nth(n) == CHOOSE i \in keep : Cardinality({j \in keep : j < i}) = n - 1
  IN  [n \in 1..Cardinality(keep) |-> items[Nth(n)].id]

\* C16: onSearch() (applySearch) leaves the cached set as it is and sets
\* the displayed set to the cached items whose title contains the trimmed
\* query, compared case-insensitively, in the cached order; for an empty or
\* all-blank query the displayed set is the whole cached set.
C16_Step ==
  onSearch =>
    /\ mediaItems' = mediaItems
    /\ filteredItems' = Matching(mediaItems, Trimmed(searchQuery))
    /\ (\A i \in 1..Len(searchQuery) : searchQuery[i] = " ")
         => filteredItems' = Ids(mediaItems)

C16_SearchIsSubsetByTitle == [][C16_Step]_vars

\* C16 witness: a query with a blank and a capital letter has been applied
\* to a cache of two items and one of them is displayed
C16_Witness ==
  /\ Len(mediaItems) = 2
  /\ Len(filteredItems) = 1
  /\ \E i \in 1..Len(searchQuery) : searchQuery[i] = " "
  /\ \E i \in 1..Len(searchQuery) : searchQuery[i] = "A"

\* C17 (as claimed): a setActiveTab(tab) that changes the tab leaves none of
\* the items displayed before it in the displayed set.
C17_Step ==
  \A tab \in Tabs :
    (setActiveTab(tab) /\ tab # activeTab) => Displayed \cap Displayed' = {}

C17_StaleViewCleared == [][C17_Step]_vars

\* C17, weaker: items that do not belong to the active tab are displayed
\* only while isLoading is set.  The code fails this too: an earlier list
\* request that completes clears isLoading while the request of the last
\* setActiveTab is still in flight.
C17_StaleOnlyWhileLoading ==
  (~isLoading /\ \E s \in ListsInFlight : requests[s].tab = activeTab)
    => C15_DisplayedMatchTab

CachedIds == {mediaItems[i].id : i \in DOMAIN mediaItems}

Pending(reqs, kind) == Cardinality({u \in DOMAIN reqs : reqs[u].kind = kind})

\* C18 (as claimed): the success callback of an upload puts the new item in
\* the cached set.
C18_MergeStep ==
  \A s \in InFlight, b \in BOOLEAN :
    UploadSuccess(s, b) => requests[s].id \in CachedIds'

C18_ReloadStep ==
  \A s \in InFlight, b \in BOOLEAN :
    UploadSuccess(s, b) =>
      /\ mediaItems' = mediaItems
      /\ filteredItems' = filteredItems
      /\ serverItems'[requests[s].id].exists
      /\ requests[s].fileId \notin uploadingFiles'
      /\ isLoading'
      /\ Pending(requests', "getMedia") = Pending(requests, "getMedia") + 1
      /\ \E u \in DOMAIN requests' :
           requests'[u].kind = "getMedia" /\ requests'[u].tab = activeTab
      /\ IF b
           THEN /\ storageSummary' = ServerStorage(serverItems')
                /\ Pending(requests', "getStorageSummary")
                     = Pending(requests, "getStorageSummary")
           ELSE /\ storageSummary' = storageSummary
                /\ Pending(requests', "getStorageSummary")
                     = Pending(requests, "getStorageSummary") + 1

C18_ListStep ==
  \A s \in InFlight :
    GetMediaSuccess(s) =>
      /\ CachedIds' = {id \in ItemIds : /\ serverItems[id].exists
                                        /\ MatchesFilter(id, requests[s].tab, serverItems[id])}
      /\ filteredItems' = Ids(mediaItems')

HasMajor(type, word) ==
  /\ Len(type) > Len(word)
  /\ type[Len(word) + 1] = "/"
  /\ \A i \in 1..Len(word) : type[i] = word[i]

MediaType(type) ==
  \/ HasMajor(type, <<"i", "m", "a", "g", "e">>)
  \/ HasMajor(type, <<"v", "i", "d", "e", "o">>)
  \/ HasMajor(type, <<"a", "u", "d", "i", "o">>)

\* C19: onFileSelected sets the too-large message for a file of more than
\* 100 * 1024 * 1024 bytes and the invalid-type message for a file of
\* another type than image/, video/, audio/, and then sends nothing and
\* changes nothing else; a file of exactly 104857600 bytes and a media type
\* is sent.
C19_Step ==
  \A file \in Files :
    onFileSelected(file) =>
      IF file.size > 104857600 \/ ~MediaType(file.type)
        THEN /\ uploadError' = (IF file.size > 104857600 THEN TooLarge ELSE InvalidType)
             /\ UNCHANGED <<requests, uploadingFiles, homeVars, authVars, serverItems>>
        ELSE /\ uploadError' = Null
             /\ Pending(requests', "uploadMedia") = Pending(requests, "uploadMedia") + 1
             /\ FileId(file, now) \in uploadingFiles'

C19_InvalidFileRejected == [][C19_Step]_vars

\* C19 witness: a file has been rejected for its type and nothing is being
\* uploaded
C19_Witness ==
  /\ uploadError = InvalidType
  /\ uploadingFiles = {}
  /\ Pending(requests, "uploadMedia") = 0

SomeFieldEmpty ==
  \E f \in {"firstName", "lastName", "email"} : registerData[f] = ""

\* C20: onSubmit sends no request and sets the message of the first check
\* that fails, in the order: a field is empty, the passwords differ, the
\* password has fewer than 6 characters; when all pass it sends one
\* register request with isLoading set.  When a register request completes,
\* with a response or an error, isLoading is false.
C20_Step ==
  /\ onSubmit =>
       IF SomeFieldEmpty \/ Len(registerData.password) = 0
         THEN errorMessage' = FillAllFields /\ UNCHANGED <<requests, registerLoading>>
       ELSE IF registerData.password # confirmPassword
         THEN errorMessage' = NoMatch /\ UNCHANGED <<requests, registerLoading>>
       ELSE IF Len(registerData.password) <= 5
         THEN errorMessage' = TooShort /\ UNCHANGED <<requests, registerLoading>>
       ELSE /\ Pending(requests', "register") = Pending(requests, "register") + 1
            /\ Len(requests') = Len(requests) + 1
            /\ registerLoading'
  /\ \A s \in InFlight :
       (\/ \E u \in Users : RegisterSuccess(s, [accessToken |-> Jwt(MaxExp), user |-> u])
        \/ \E st \in ErrorStatuses, body \in RegisterBodies : RegisterFailure(s, st, body))
         => (~registerLoading'
             /\ Pending(requests', "register") = Pending(requests, "register") - 1)

C20_RegisterValidation == [][C20_Step]_vars

\* C20 witness: a valid form was submitted and its request has failed:
\* nothing is in flight, isLoading is false and the failure message is set
C20_Witness ==
  /\ errorMessage = RegistrationFailed
  /\ ~registerLoading
  /\ requests = <<>>

\* x lies in [0, 100]
InPercentRange(x) == 0 <= x.num /\ x.num <= 100 * x.den

\* C21: whenever getStoragePercentage() is read, its result lies in
\* [0, 100]; it is 0 when no summary is loaded or quotaBytes is 0, 100 when
\* usedBytes exceeds a positive quota, and usedBytes * 100 / quotaBytes
\* otherwise.
C21_Step ==
  ShowStorage =>
    LET x == storagePercentage'
        used == storageSummary.usedBytes
        quota == storageSummary.quotaBytes
    IN  /\ x.den > 0
        /\ InPercentRange(x)
        /\ (storageSummary = NoSummary \/ quota = 0) => x.num = 0
        /\ (storageSummary # NoSummary /\ quota > 0 /\ used > quota) => x.num = 100 * x.den
        /\ (storageSummary # NoSummary /\ quota > 0 /\ used <= quota)
             => x.num * quota = used * 100 * x.den

C21_PercentageInRange == [][C21_Step]_vars

\* C21 witness: the percentage was read for a usage above the quota and
\* came out as 100
C21_Witness ==
  /\ storageSummary # NoSummary
  /\ storageSummary.quotaBytes > 0
  /\ storageSummary.usedBytes > storageSummary.quotaBytes
  /\ storagePercentage = getStoragePercentage(storageSummary)
  /\ storagePercentage = Whole(100)

\* C22: playAudio(item) makes item the playing one when its type is audio
\* and it is not the one playing, and otherwise leaves nowPlaying as it is;
\* setActiveTab leaves nowPlaying as it is; stopAudio sets it to null; and
\* isCurrentlyPlaying(x) is true exactly when something is playing and it
\* has x's id.
C22_Step ==
  /\ \A item \in PlayItems :
       playAudio(item) =>
         nowPlaying' = (IF item.type = "audio"
                           /\ (nowPlaying = NothingPlaying \/ nowPlaying.id # item.id)
                          THEN item ELSE nowPlaying)
  /\ \A tab \in Tabs : setActiveTab(tab) => nowPlaying' = nowPlaying
  /\ stopAudio => nowPlaying' = NothingPlaying

C22_Playing ==
  \A x \in PlayItems :
    isCurrentlyPlaying(nowPlaying, x) <=> (nowPlaying # NothingPlaying /\ nowPlaying.id = x.id)

C22_AudioPlayer == [](C22_Playing) /\ [][C22_Step]_vars

\* C22 witness: an audio item is playing on a tab other than the one the
\* component starts on
C22_Witness ==
  /\ nowPlaying # NothingPlaying
  /\ nowPlaying.type = "audio"
  /\ activeTab = "trash"

\* C23: a 401 handled with no token stored or with a logout in progress
\* starts no logout sequence and changes nothing but to request one
\* navigation to /login; the interceptor calls logout() itself exactly when
\* isAuthenticated() has returned true, and then requests no navigation of
\* its own.
C23_ClearedSessionOnlyRedirects ==
  LET a == isAuthenticated(World, now)
      w == intercept(World, 401, now)
  IN  /\ (isLoggingOut \/ localStorage.token = NoToken) =>
           /\ w.ran = 0
           /\ w.redirects = 1
           /\ w.redirectNav
           /\ SessionState(w) = SessionState(World)
           /\ w.logoutNav = logoutNav
           /\ w.window = window
           /\ w.logoutTrace = logoutTrace
      /\ ~a.ret => /\ w = navigateLogin(a.w)
                   /\ w.window.calls = a.w.window.calls
      /\ a.ret => /\ w = logout(World)
                  /\ w.ran = 1
                  /\ w.redirects = 0

\* C23 witness: at /home, with the session cleared and its logout settled,
\* a 401 has been handled: the interceptor's navigation is pending and no
\* logout sequence is running
C23_Witness ==
  /\ route = "home"
  /\ redirectNav
  /\ localStorage.token = NoToken
  /\ ~isLoggingOut
  /\ logoutNav = "none"
  /\ ~window.open

\* C24 (as claimed): when the navigation of a logout sequence settles,
\* resolved with true, resolved with false, or rejected, the in-progress
\* flag is cleared.
C24_Step ==
  \A o \in {"true", "false", "rejected"} : NavSettle(o) => ~isLoggingOut'

C24_FlagClearedOnEveryOutcome == [][C24_Step]_vars

\* C24, the consequence: with no navigation of logout() pending the flag is
\* clear.  A rejected navigation leaves a state with the flag set and
\* nothing left to clear it.
C24_NoStuckFlag == (logoutNav = "none") => ~isLoggingOut

\* the state of the session machine
Phase(flag, store) ==
  IF flag THEN "LoggingOut"
  ELSE IF store.token # NoToken THEN "Authenticated"
  ELSE "Unauthenticated"

MachineTransitions ==
  {<<"Unauthenticated", "Authenticated">>, <<"Authenticated", "LoggingOut">>,
   <<"LoggingOut", "Unauthenticated">>}

\* no token becomes stored while in LoggingOut
C25_NoTokenWhileLoggingOut ==
  [][(isLoggingOut /\ localStorage.token = NoToken) => localStorage'.token = NoToken]_vars

\* LoggingOut is not entered from Unauthenticated
C25_NoLogoutFromUnauthenticated ==
  [][~(Phase(isLoggingOut, localStorage) = "Unauthenticated"
       /\ Phase(isLoggingOut', localStorage') = "LoggingOut")]_vars

\* C25 (as claimed): every step keeps the state of the session machine or
\* follows one of its three transitions; no token becomes stored while in
\* LoggingOut.
C25_Step ==
  /\ \/ Phase(isLoggingOut', localStorage') = Phase(isLoggingOut, localStorage)
     \/ <<Phase(isLoggingOut, localStorage), Phase(isLoggingOut', localStorage')>>
          \in MachineTransitions
  /\ (isLoggingOut /\ localStorage.token = NoToken) => localStorage'.token = NoToken

C25_OnlyMachineTransitions == [][C25_Step]_vars

\* C26: the continuation of a mutating request, success or failure with any
\* status, takes the request's id out of operatingItems; and every id in
\* operatingItems is eventually out of it, requests being answered.
C26_Step ==
  \A id \in ItemIds : Complete(id) => id \notin operatingItems'

C26_Released ==
  \A id \in ItemIds : (id \in operatingItems) ~> (id \notin operatingItems)

C26_GuardReleased == [][C26_Step]_vars /\ C26_Released

\* C26 witness: a mutation has failed with 401, which started the logout
\* sequence, and the guard is empty with no mutation in flight
C26_Witness ==
  /\ runs401 = 1
  /\ isLoggingOut
  /\ operatingItems = {}
  /\ \A s \in InFlight : requests[s].kind \notin MutatingKinds
  /\ mediaItems # <<>>

\* the success continuation of the toggle request s runs
ToggleSucceeds(s) ==
  \/ ToggleFavoriteSuccess(s)
  \/ \E b \in BOOLEAN : ToggleTrashSuccess(s, b)

\* the step sends a list request
Refetches == Pending(requests', "getMedia") = Pending(requests, "getMedia") + 1

\* C27 (as claimed): when a toggle succeeds on a displayed item that
\* matched the active tab and no longer does, the item leaves the displayed
\* set or the list is requested again.
C27_Step ==
  \A s \in InFlight :
    LET id == requests[s].id
    IN  (/\ ToggleSucceeds(s)
         /\ id \in Displayed
         /\ MatchesFilter(id, activeTab, serverItems[id])
         /\ ~MatchesFilter(id, activeTab, serverItems'[id]))
          => (id \notin Displayed' \/ Refetches)

C27_DroppedWhenNoLongerMatching == [][C27_Step]_vars

\* C27, the two cases the code handles: un-favorited on favorites, and
\* trashed on a tab other than trash
C27_HandledStep ==
  \A s \in InFlight :
    LET id == requests[s].id
    IN  (/\ ToggleSucceeds(s)
         /\ id \in Displayed
         /\ MatchesFilter(id, activeTab, serverItems[id])
         /\ ~MatchesFilter(id, activeTab, serverItems'[id])
         /\ activeTab # "trash")
          => Refetches

C27_HandledCases == [][C27_HandledStep]_vars

\* the favorites on the backend
ServerFavorites == {it.id : it \in {ServerList("favorites", serverItems)[i] :
                                      i \in DOMAIN ServerList("favorites", serverItems)}}

\* the un-favorite of the only favorite, displayed alone on tab favorites,
\* succeeds
C28_Unfavorite(s) ==
  /\ ToggleFavoriteSuccess(s)
  /\ ~requests[s].value
  /\ ~requests[s].orphan
  /\ activeTab = "favorites"
  /\ filteredItems = <<requests[s].id>>
  /\ ServerFavorites = {requests[s].id}

\* a list request for tab favorites of the current component is in flight
FavoritesFetch(reqs) ==
  \E u \in DOMAIN reqs :
    reqs[u].kind = "getMedia" /\ reqs[u].tab = "favorites" /\ ~reqs[u].orphan

C28_Step ==
  \A s \in InFlight :
    /\ C28_Unfavorite(s) =>
         /\ Refetches
         /\ FavoritesFetch(requests')
         /\ isLoading'
         /\ authVars' = authVars
         /\ route' = route
    /\ (/\ GetMediaSuccess(s)
        /\ requests[s].tab = "favorites"
        /\ ~requests[s].orphan
        /\ ServerFavorites = {})
         => (filteredItems' = <<>> /\ mediaItems' = <<>>)

\* C28: on tab favorites with the only favorite displayed, a successful
\* un-favorite of it sends the list request of the tab, starts no logout and
\* no navigation, and when that request resolves (no item having been made a
\* favorite meanwhile) the displayed set is empty.
C28_RefetchEmptiesFavorites == [][C28_Step]_vars

\* the list request sent by the un-favorite has resolved: tab favorites shows
\* nothing, nothing is in flight and the cached items are those of the
\* re-fetch
C28_Witness ==
  /\ activeTab = "favorites"
  /\ ServerFavorites = {}
  /\ filteredItems = <<>>
  /\ mediaItems = <<>>
  /\ requests = <<>>
  /\ ~isLoading
  /\ \A id \in ItemIds : serverItems[id].exists /\ ~serverItems[id].isDeleted

\* after the step, the cached copy of the item of request r, if there is
\* one, carries the requested value in the flag the request sets
CachedAsRequested(r) ==
  \A i \in DOMAIN mediaItems' :
    mediaItems'[i].id = r.id =>
      IF r.kind = "toggleFavorite" THEN mediaItems'[i].isFavorite = r.value
      ELSE mediaItems'[i].isDeleted = r.value

\* C29 (as claimed): when a toggleFavorite or toggleTrash request of the
\* current component succeeds, the cached copy of its item has the
\* requested value, whether or not a list response replaced the cached set
\* while the request was in flight.
C29_Step ==
  \A s \in InFlight :
    (ToggleSucceeds(s) /\ ~requests[s].orphan) => CachedAsRequested(requests[s])

C29_CachedCopyUpdated == [][C29_Step]_vars

\* C29 without the re-fetch: the cached set is still the one the item was
\* taken from
C29_SameListStep ==
  \A s \in InFlight :
    (ToggleSucceeds(s) /\ ~requests[s].orphan /\ ~requests[s].detached)
       => CachedAsRequested(requests[s])

C29_CachedCopyUpdatedSameList == [][C29_SameListStep]_vars

C30_Step ==
  \A s \in InFlight, status \in ErrorStatuses :
    MutationError(s, status) =>
      /\ mediaItems' = mediaItems
      /\ filteredItems' = filteredItems
      /\ storageSummary' = storageSummary
      /\ serverItems' = serverItems
      /\ requests' = Done(requests, s)

\* C30: a failed toggleFavorite, toggleTrash or deleteMedia leaves the
\* cached items with their flags, the displayed items, the storage summary
\* and the backend's items as they were, and sends nothing: the failed
\* request leaves the requests in flight and no request joins them.
C30_FailureChangesNothing == [][C30_Step]_vars

\* a mutation failed with 401 (the only 401 this component can meet here):
\* everything has been answered, and the items on the backend, in the cache
\* and on screen are the ones loaded before
C30_Witness ==
  /\ runs401 >= 1
  /\ requests = <<>>
  /\ serverItems = FavoriteItems
  /\ mediaItems = ServerList("photos", serverItems)
  /\ filteredItems # <<>>
  /\ operatingItems = {}

\* after the step the component holds the backend's summary, as carried by
\* the response (withStorage), or has sent the storage request
StorageRefreshed(withStorage) ==
  IF withStorage
    THEN storageSummary' = ServerStorage(serverItems')
    ELSE Pending(requests', "getStorageSummary")
           = Pending(requests, "getStorageSummary") + 1

\* C31 (as claimed): every successful trash toggle and permanent delete
\* takes the storage summary from the response when it carries one and sends
\* the storage request when it does not.
C31_Step ==
  \A s \in InFlight, b \in BOOLEAN :
    ((ToggleTrashSuccess(s, b) \/ DeleteSuccess(s, b)) /\ ~requests[s].orphan)
       => StorageRefreshed(b)

C31_StorageRefreshedAfterMutation == [][C31_Step]_vars

\* C31 for the permanent delete alone
C31_DeleteStep ==
  \A s \in InFlight, b \in BOOLEAN :
    (DeleteSuccess(s, b) /\ ~requests[s].orphan) => StorageRefreshed(b)

C31_StorageRefreshedAfterDelete == [][C31_DeleteStep]_vars

\* C31 for the upload alone
C31_UploadStep ==
  \A s \in InFlight, b \in BOOLEAN : UploadSuccess(s, b) => StorageRefreshed(b)

C31_StorageRefreshedAfterUpload == [][C31_UploadStep]_vars

\* a successful response to request s is delivered to the current component
ResponseArrives(s) ==
  /\ ~requests[s].orphan
  /\ \/ GetMediaSuccess(s)
     \/ StorageSuccess(s)
     \/ ToggleFavoriteSuccess(s)
     \/ \E b \in BOOLEAN : ToggleTrashSuccess(s, b)
     \/ \E b \in BOOLEAN : DeleteSuccess(s, b)

\* C32 (as claimed): a list, storage or mutation response that arrives when
\* a logout has cleared the session (no token stored) leaves the cached
\* items with their flags, the displayed items and the storage summary as
\* they were, and sends no request.
C32_Step ==
  \A s \in InFlight :
    (ResponseArrives(s) /\ localStorage.token = NoToken) =>
      /\ mediaItems' = mediaItems
      /\ filteredItems' = filteredItems
      /\ storageSummary' = storageSummary
      /\ requests' = Done(requests, s)

C32_IgnoredAfterLogout == [][C32_Step]_vars

C33_Step ==
  \A s \in InFlight, status \in UploadStatuses, body \in ErrorBodies :
    UploadError(s, status, body) =>
      /\ mediaItems' = mediaItems
      /\ filteredItems' = filteredItems
      /\ storageSummary' = storageSummary
      /\ requests[s].fileId \in uploadingFiles
      /\ requests[s].fileId \in DOMAIN uploadProgress
      /\ requests[s].fileId \notin uploadingFiles'
      /\ requests[s].fileId \notin DOMAIN uploadProgress'
      /\ uploadError' = uploadErrorMessage(status, body)
      /\ uploadError' # Null
      /\ requests' = Done(requests, s)

\* C33: a failed upload leaves the cached items, the displayed items and the
\* storage summary unchanged, takes the upload's entry out of uploadingFiles
\* and out of uploadProgress, sets uploadError to a message, and sends
\* nothing; the two collections always have the same keys.
C33_FailedUploadFrame == [](DOMAIN uploadProgress = uploadingFiles) /\ [][C33_Step]_vars

\* an upload has failed with a server error: its message is shown and no
\* upload is left in progress
C33_Witness ==
  /\ uploadError = "Upload failed. Please try again."
  /\ uploadingFiles = {}
  /\ uploadProgress = EmptyMap
  /\ requests = <<>>

RetryMessage == "Upload failed. Please try again."

\* the message the error callback must set for every failure but a network
\* failure
KindMessage(status, body) ==
  CASE status = 413 /\ includesQuota(body) -> body
    [] status = 413 /\ ~includesQuota(body) -> TooLarge
    [] status = 400 /\ body # "none" -> body
    [] status = 400 /\ body = "none" -> uploadErrorMessage(status, body)
    [] status = 401 -> "Authentication failed. Please log in again."
    [] status = 500 -> RetryMessage

\* C34 (as claimed): the message of a failed upload follows the error kind,
\* and a network failure (status 0) gets a message of its own, different
\* from the one of a server error.
C34_Step ==
  \A s \in InFlight, status \in UploadStatuses, body \in ErrorBodies :
    UploadError(s, status, body) =>
      IF status = 0
        THEN uploadError' \notin {Null, RetryMessage, TooLarge, body}
        ELSE uploadError' = KindMessage(status, body)

C34_MessageByKind == [][C34_Step]_vars

\* C34 without the network failure
C34_HttpStep ==
  \A s \in InFlight, status \in UploadStatuses \ {0}, body \in ErrorBodies :
    UploadError(s, status, body) => uploadError' = KindMessage(status, body)

C34_MessageByHttpStatus == [][C34_HttpStep]_vars

C35_Step ==
  (onSearch \/ clearSearch) =>
    /\ requests' = requests
    /\ mediaItems' = mediaItems
    /\ activeTab' = activeTab
    /\ operatingItems' = operatingItems
    /\ storageSummary' = storageSummary
    /\ isLoading' = isLoading
    /\ filteredItems' = applySearch(mediaItems, searchQuery')
    /\ applySearch(mediaItems', searchQuery') = filteredItems'

\* C35: onSearch and clearSearch send no request and leave the cached
\* items, the active tab, the operating set and the storage summary
\* unchanged; the displayed set they leave is the projection of the cached
\* items under the query, so that applying the search again with the same
\* query leaves the same displayed set.
C35_SearchIsProjection == [][C35_Step]_vars

\* a query that matches nothing has been applied to a cache of two items:
\* nothing is displayed, the cache is whole and nothing is in flight
C35_Witness ==
  /\ Len(mediaItems) = 2
  /\ filteredItems = <<>>
  /\ trim(searchQuery) # <<>>
  /\ requests = <<>>

\* the query parameters each tab must send
TabParams(tab) ==
  CASE tab = "photos" -> {<<"type", "photo">>}
    [] tab = "videos" -> {<<"type", "video">>}
    [] tab = "audio" -> {<<"type", "audio">>}
    [] tab = "favorites" -> {<<"favorites", "true">>}
    [] tab = "trash" -> {<<"trash", "true">>}

C36_Step ==
  \A tab \in Tabs :
    setActiveTab(tab) =>
      /\ Len(requests') = Len(requests) + 1
      /\ Pending(requests', "getMedia") = Pending(requests, "getMedia") + 1
      /\ \E u \in DOMAIN requests' :
           /\ requests'[u].kind = "getMedia"
           /\ requests'[u].tab = activeTab'
           /\ getMedia(requests'[u]) = TabParams(tab)

C36_ListRequests ==
  \A s \in InFlight :
    (requests[s].kind = "getMedia" /\ ~requests[s].orphan)
       => getMedia(requests[s]) = TabParams(requests[s].tab)

\* C36: each setActiveTab sends exactly one list request; every list request
\* carries the parameters of its tab and nothing else (type=photo, video or
\* audio; favorites=true; trash=true), whatever the search query is.
C36_FilterByTabAlone == [](C36_ListRequests) /\ [][C36_Step]_vars

\* with a query typed, the favorites tab has been selected and its request,
\* carrying favorites=true alone, is in flight
C36_Witness ==
  /\ searchQuery # <<>>
  /\ activeTab = "favorites"
  /\ \E s \in InFlight :
       requests[s].kind = "getMedia" /\ getMedia(requests[s]) = {<<"favorites", "true">>}

TierRank(name) ==
  CASE name = "Free Plan" -> 1
    [] name = "Pro Plan" -> 2
    [] name = "Enterprise Plan" -> 3

\* the tier by the thresholds, in whole units
TierOf(quota) ==
  IF quota <= 5 * GiB THEN "Free Plan"
  ELSE IF quota <= 100 * GiB THEN "Pro Plan"
  ELSE "Enterprise Plan"

C37_Step ==
  /\ (ShowPlan /\ storageSummary # NoSummary)
       => planDisplayName' = TierOf(storageSummary.quotaBytes)
  /\ (/\ storageSummary # NoSummary
      /\ storageSummary' # NoSummary
      /\ storageSummary'.quotaBytes >= storageSummary.quotaBytes)
       => TierRank(getPlanDisplayName(storageSummary'))
            >= TierRank(getPlanDisplayName(storageSummary))

\* C37: the plan name depends on quotaBytes alone: Free Plan up to 5 GiB
\* included, Pro Plan above 5 GiB and up to 100 GiB included, Enterprise
\* Plan above; when the quota grows the tier never goes down.
C37_PlanTierByQuota == [][C37_Step]_vars

\* a quota of exactly 100 GiB is shown as Pro Plan
C37_Witness ==
  /\ storageSummary # NoSummary
  /\ storageSummary.quotaBytes = 100 * GiB
  /\ planDisplayName = "Pro Plan"

\* C38 (as claimed): when the last list request in flight is answered, the
\* cached set is what the backend holds for the active tab, which is the
\* response to the request issued last, in whatever order the responses
\* arrived.
C38_Step ==
  \A s \in InFlight :
    (GetMediaSuccess(s) /\ ~requests[s].orphan /\ ListsInFlight = {s})
       => mediaItems' = ServerList(activeTab, serverItems)

C38_LastIssuedWins == [][C38_Step]_vars

\* C38 when the responses arrive in the order of the requests: the answer
\* that arrives last is the one for the active tab
C38_InOrderStep ==
  \A s \in InFlight :
    (/\ GetMediaSuccess(s)
     /\ ~requests[s].orphan
     /\ ListsInFlight = {s}
     /\ requests[s].tab = activeTab)
       => mediaItems' = ServerList(activeTab, serverItems)

C38_LastArrivedWins == [][C38_InOrderStep]_vars

\* C39 (as claimed): once every response has arrived, the storage summary
\* the component holds is the backend's current one, also when a storage
\* request sent before a permanent delete is answered after the delete's
\* response.
C39_SummaryIsLatest ==
  (requests = <<>> /\ storageSummary # NoSummary)
     => storageSummary = ServerStorage(serverItems)

====
